---- MODULE Spec2Model ----
(***************************************************************************)
(* Card reconciliation engine (services/reconciliation_service.py).        *)
(*                                                                         *)
(* Text is a sequence of atoms; an atom is a run of characters that no     *)
(* operation of the service ever splits (" ", ".", "0", "-", "#" and the   *)
(* digits are atoms of one character).  A table is a sequence of rows, a   *)
(* row a record of its columns.  Money is an integer number of 1/10000     *)
(* currency units.  A date is a record [y, m, d]; NaT is the null date.    *)
(***************************************************************************)
EXTENDS Integers, Sequences, FiniteSets, TLC

VARIABLES
    self,      \* the ReconciliationService instance: its attributes by name
    locals,    \* the local tables the stage that ran last left behind
    pc,        \* the position of run_full_reconciliation (or of a helper call)
    fn_arg,    \* the argument of a helper called on its own
    fn_res,    \* its result
    fn_res2,   \* the result of the helper applied to fn_res
    sheets,    \* sheets_data: the tables the caller loaded and handed to __init__
    peer,      \* a second instance built from the same sheets_data, if any
    files,     \* the output directory: the content of each file by path
    changed,   \* the paths of the output directory, the one changed last at the end
    request,   \* the HTTP request the application served last
    response,  \* the endpoint that served it and what it answered
    tasks      \* the background tasks the request in progress has added

vars == <<self, locals, pc, fn_arg, fn_res, fn_res2, sheets, peer, files,
          changed, request, response, tasks>>

(***************************************************************************)
(* Text.                                                                   *)
(***************************************************************************)
\* The sequences over S of length at most n.
SeqsUpTo(S, n) ==
    UNION {[1..k -> S] : k \in 0..n}

\* s[from..to] like Python's slice on 1-based inclusive positions.
Slice(s, from, to) ==
    IF from > to THEN <<>> ELSE SubSeq(s, from, to)

\* str.startswith(prefix)
StartsWith(s, prefix) ==
    /\ Len(s) >= Len(prefix)
    /\ Slice(s, 1, Len(prefix)) = prefix

\* str.endswith(suffix)
EndsWith(s, suffix) ==
    /\ Len(s) >= Len(suffix)
    /\ Slice(s, Len(s) - Len(suffix) + 1, Len(s)) = suffix

IsSpace(a) ==
    a = " "

RECURSIVE LStrip(_)
LStrip(s) ==
    IF s # <<>> /\ IsSpace(Head(s)) THEN LStrip(Tail(s)) ELSE s

RECURSIVE RStrip(_)
RStrip(s) ==
    IF s # <<>> /\ IsSpace(s[Len(s)]) THEN RStrip(Slice(s, 1, Len(s) - 1)) ELSE s

\* str.strip()
Strip(s) ==
    RStrip(LStrip(s))

\* str.upper() on the atoms that carry lower-case letters.
UpperAtom(a) ==
    CASE a = "2lbp" -> "2LBP"
      [] OTHER -> a

Upper(s) ==
    [i \in 1..Len(s) |-> UpperAtom(s[i])]

DotZero == <<".", "0">>

(***************************************************************************)
(* Merchant-identifier normalisation.                                      *)
(***************************************************************************)
\* _normalize_merchant_id_value: str(value).strip(), minus one trailing ".0".
_normalize_merchant_id_value(value) ==
    LET text == Strip(value)
    IN  IF EndsWith(text, DotZero) THEN Slice(text, 1, Len(text) - 2) ELSE text

\* re.sub(r"\.0$", "", s): the one match of the pattern, if any, is at the end.
ReplaceTrailingDotZero(s) ==
    IF EndsWith(s, DotZero) THEN Slice(s, 1, Len(s) - 2) ELSE s

\* _normalize_merchant_id_series on one cell of the column.
_normalize_merchant_id_series(cell) ==
    ReplaceTrailingDotZero(Strip(cell))

(***************************************************************************)
(* Dates.                                                                  *)
(***************************************************************************)
NaT == [y |-> 0, m |-> 0, d |-> 0]

Digits == {"0", "1", "2", "3", "4", "5", "6", "7", "8", "9"}

DigitVal(a) ==
    CASE a = "0" -> 0 [] a = "1" -> 1 [] a = "2" -> 2 [] a = "3" -> 3
      [] a = "4" -> 4 [] a = "5" -> 5 [] a = "6" -> 6 [] a = "7" -> 7
      [] a = "8" -> 8 [] a = "9" -> 9

\* str.isdigit() (of a non-empty text)
IsDigitText(s) ==
    /\ s # <<>>
    /\ \A i \in 1..Len(s) : s[i] \in Digits

\* The number the first n digits of s write.
RECURSIVE NumUpTo(_, _)
NumUpTo(s, n) ==
    IF n = 0 THEN 0 ELSE 10 * NumUpTo(s, n - 1) + DigitVal(s[n])

\* int(s) of a text of digits
Num(s) ==
    NumUpTo(s, Len(s))

IsLeap(y) ==
    (y % 4 = 0 /\ y % 100 # 0) \/ y % 400 = 0

DaysIn(y, m) ==
    CASE m \in {1, 3, 5, 7, 8, 10, 12} -> 31
      [] m \in {4, 6, 9, 11} -> 30
      [] m = 2 -> IF IsLeap(y) THEN 29 ELSE 28
      [] OTHER -> 0

\* A calendar date that a pandas Timestamp can hold (1677-09-22 .. 2262-04-11).
IsTimestampDate(y, m, d) ==
    /\ m \in 1..12
    /\ d \in 1..DaysIn(y, m)
    /\ y * 10000 + m * 100 + d >= 16770922
    /\ y * 10000 + m * 100 + d <= 22620411

\* pd.to_datetime(..., errors="coerce") once the fields are read.
MkDate(y, m, d) ==
    IF IsTimestampDate(y, m, d) THEN [y |-> y, m |-> m, d |-> d] ELSE NaT

\* pd.to_datetime(x, format="%Y%m%d", errors="coerce") on 8 digits: the
\* two-digit month and day alternatives of the format are the only ones that
\* consume the whole text.
ToDatetimeYMD(x) ==
    MkDate(Num(Slice(x, 1, 4)), Num(Slice(x, 5, 6)), Num(Slice(x, 7, 8)))

\* pd.to_datetime(x, format="%d%m%Y", errors="coerce") on 8 digits.
ToDatetimeDMY(x) ==
    MkDate(Num(Slice(x, 5, 8)), Num(Slice(x, 3, 4)), Num(Slice(x, 1, 2)))

\* pd.to_datetime(x, format="%m%d%Y", errors="coerce") on 8 digits.
ToDatetimeMDY(x) ==
    MkDate(Num(Slice(x, 5, 8)), Num(Slice(x, 1, 2)), Num(Slice(x, 3, 4)))

\* The null cell (None / NaN) as an argument.
NA == <<"<NA>">>

\* A mutant: the month-first reading is tried before the day-first one.
ParseMonthFirst(x0) ==
    LET x == Strip(x0)
    IN  IF x0 = NA \/ Len(x) # 8 \/ ~IsDigitText(x) THEN NaT
        ELSE IF StartsWith(x, <<"1", "9">>) \/ StartsWith(x, <<"2", "0">>)
             THEN ToDatetimeYMD(x)
        ELSE IF ToDatetimeMDY(x) # NaT THEN ToDatetimeMDY(x)
        ELSE ToDatetimeDMY(x)

\* _parse_mixed_date
_parse_mixed_date(x0) ==
    IF x0 = NA THEN NaT
    ELSE LET x == Strip(x0)
         IN  IF Len(x) # 8 \/ ~IsDigitText(x) THEN NaT
             ELSE IF StartsWith(x, <<"1", "9">>) \/ StartsWith(x, <<"2", "0">>)
                  THEN ToDatetimeYMD(x)
             ELSE IF ToDatetimeDMY(x) # NaT THEN ToDatetimeDMY(x)
             ELSE ToDatetimeMDY(x)

\* pd.to_datetime(cell, errors="coerce") on a cell written YYYY-MM-DD; any
\* other text of the model is unparsable.  Times of day are not modelled.
ToDatetime(cell) ==
    IF /\ Len(cell) = 10
       /\ cell[5] = "-" /\ cell[8] = "-"
       /\ IsDigitText(Slice(cell, 1, 4))
       /\ IsDigitText(Slice(cell, 6, 7))
       /\ IsDigitText(Slice(cell, 9, 10))
    THEN MkDate(Num(Slice(cell, 1, 4)), Num(Slice(cell, 6, 7)), Num(Slice(cell, 9, 10)))
    ELSE NaT

\* NaN of a numeric column.
NaN == -1

\* pd.to_numeric(cell, errors="coerce") on a cell that holds text.
ToNumeric(cell) ==
    IF IsDigitText(cell) THEN Num(cell) ELSE NaN

(***************************************************************************)
(* Tables.                                                                 *)
(***************************************************************************)
\* df[mask]
Filter(df, Keep(_)) ==
    SelectSeq(df, Keep)

RECURSIVE SumSeq(_)
SumSeq(nums) ==
    IF nums = <<>> THEN 0 ELSE Head(nums) + SumSeq(Tail(nums))

\* df[column].sum(), the column given as a function of the row.
Sum(df, Col(_)) ==
    SumSeq([i \in 1..Len(df) |-> Col(df[i])])

RECURSIVE Concat(_)
\* pd.concat of a sequence of tables, one under the other.
Concat(dfs) ==
    IF dfs = <<>> THEN <<>> ELSE Head(dfs) \o Concat(Tail(dfs))

\* A mutant: no duplicate row is dropped.
KeepDuplicates(df) ==
    df

RECURSIVE drop_duplicates(_)
\* df.drop_duplicates(): the first of equal rows is kept.
drop_duplicates(df) ==
    IF df = <<>> THEN <<>>
    ELSE LET init == drop_duplicates(Slice(df, 1, Len(df) - 1))
             last == df[Len(df)]
         IN  IF \E i \in 1..Len(init) : init[i] = last THEN init
             ELSE Append(init, last)

\* The rows of a table as a set.
Rows(df) ==
    {df[i] : i \in 1..Len(df)}

\* The number of rows of df equal to row.
Count(df, row) ==
    Cardinality({i \in 1..Len(df) : df[i] = row})

\* Two tables hold the same rows the same number of times.
SameRows(a, b) ==
    /\ Len(a) = Len(b)
    /\ \A r \in Rows(a) \cup Rows(b) : Count(a, r) = Count(b, r)

(***************************************************************************)
(* Join keys.  A reference number is an integer or a text cell; a column   *)
(* of integers has dtype int64, any other column dtype object.             *)
(***************************************************************************)
IntKey(n) == [t |-> "int", v |-> n, s |-> ""]

StrKey(x) == [t |-> "str", v |-> 0, s |-> x]

\* The dtype pandas gives a column holding these keys (one per row).
Dtype(keys) ==
    IF keys # <<>> /\ \A i \in 1..Len(keys) : keys[i].t = "int"
    THEN "int64" ELSE "object"

\* lib.infer_dtype of the values of a key column.
InferDtype(keys) ==
    IF keys = <<>> THEN "empty"
    ELSE IF \A i \in 1..Len(keys) : keys[i].t = "int" THEN "integer"
    ELSE IF \A i \in 1..Len(keys) : keys[i].t = "str" THEN "string"
    ELSE "mixed-integer"

\* merge() refuses ("You are trying to merge on object and int64 columns")
\* an all-text key column against an int64 one, unless a side is empty.
\* ldtype, rdtype: the dtypes of the two key columns.
MergeRaises(lkeys, ldtype, rkeys, rdtype) ==
    /\ lkeys # <<>> /\ rkeys # <<>>
    /\ ldtype # rdtype
    /\ \/ ldtype = "object" /\ InferDtype(lkeys) = "string"
       \/ rdtype = "object" /\ InferDtype(rkeys) = "string"

\* The absent side of a joined row (its columns are NaN).
NoRow == [absent |-> TRUE]

\* A mutant: a matched right row is reported as right_only as well.
MergeKeepsRight(left, lkeys, right, rkeys) ==
    LET MatchesOf(i) ==
            LET js == {j \in 1..Len(right) : rkeys[j] = lkeys[i]}
                Pick(j) == IF j \in js
                           THEN <<[l |-> left[i], r |-> right[j], _merge |-> "both"]>>
                           ELSE <<>>
            IN  IF js = {}
                THEN <<[l |-> left[i], r |-> NoRow, _merge |-> "left_only"]>>
                ELSE Concat([j \in 1..Len(right) |-> Pick(j)])
    IN  Concat([i \in 1..Len(left) |-> MatchesOf(i)])
        \o [j \in 1..Len(right) |-> [l |-> NoRow, r |-> right[j], _merge |-> "right_only"]]

\* left.merge(right, how="outer", left_on=..., right_on=..., indicator=True),
\* the key columns given as sequences aligned with the rows.  Rows come out
\* in left order, the unmatched right rows last (pandas sorts an outer join
\* by key instead; row order is not observable in what follows).
Merge(left, lkeys, right, rkeys) ==
    LET MatchesOf(i) ==
            LET js == {j \in 1..Len(right) : rkeys[j] = lkeys[i]}
                Pick(j) == IF j \in js
                           THEN <<[l |-> left[i], r |-> right[j], _merge |-> "both"]>>
                           ELSE <<>>
            IN  IF js = {}
                THEN <<[l |-> left[i], r |-> NoRow, _merge |-> "left_only"]>>
                ELSE Concat([j \in 1..Len(right) |-> Pick(j)])
        RightOnly(j) ==
            IF \E i \in 1..Len(left) : lkeys[i] = rkeys[j] THEN <<>>
            ELSE <<[l |-> NoRow, r |-> right[j], _merge |-> "right_only"]>>
    IN  Concat([i \in 1..Len(left) |-> MatchesOf(i)])
        \o Concat([j \in 1..Len(right) |-> RightOnly(j)])

\* left.merge(right, how="inner", ...)
MergeInner(left, lkeys, right, rkeys) ==
    LET both == Filter(Merge(left, lkeys, right, rkeys), LAMBDA x : x._merge = "both")
    IN  [i \in 1..Len(both) |-> [l |-> both[i].l, r |-> both[i].r]]

(***************************************************************************)
(* Settings (config.py).                                                   *)
(***************************************************************************)
\* settings.merchant_id_interswitch_unity
settings_merchant_id_interswitch_unity == <<"2LBP87654321988">>

\* settings.merchant_id_nibss_unity
settings_merchant_id_nibss_unity == <<"2215LA525653900">>

\* str(settings.merchant_id_nibss_parallex), the float 210000000000000.0
settings_merchant_id_nibss_parallex == <<"21000000000000", "0", ".", "0">>

(***************************************************************************)
(* Money: integers counting 1/10000 of a currency unit.                    *)
(***************************************************************************)
Unit == 100 * 100

Cent == 100

\* round(2): to the nearest cent, a tie to the even cent.
Round2(x) ==
    LET q == x \div Cent
        r == x % Cent
    IN  IF r * 2 < Cent THEN q * Cent
        ELSE IF r * 2 > Cent THEN (q + 1) * Cent
        ELSE IF q % 2 = 0 THEN q * Cent ELSE (q + 1) * Cent

\* cost_of_acquisition of an Interswitch row, in currency units
isw_cost_of_acquisition == 17

\* agent_commission of an Interswitch row, in currency units
isw_agent_commission == 3

\* cost_of_acquisition of a NIBSS row: amount * 0.0022 (22 per 10000)
nibss_cost_rate == 22

(***************************************************************************)
(* _prepare_data                                                           *)
(***************************************************************************)
\* _safe_str_series on one cell: a null cell becomes the empty text.
_safe_str_series(cell) ==
    IF cell = NA THEN <<>> ELSE cell

\* A card row after the conversions of _prepare_data.
PrepareCardRow(row) ==
    [row EXCEPT !.date_created = ToDatetime(row.date_created),
                !.merchant_id = _normalize_merchant_id_series(_safe_str_series(row.merchant_id)),
                !.host_resp_code = ToNumeric(row.host_resp_code)]

\* A settlement row after the conversions of _prepare_data.
PrepareSettlementRow(row) ==
    [row EXCEPT !.Local_Date_Time = ToDatetime(row.Local_Date_Time),
                !.Merchant_ID = _normalize_merchant_id_series(_safe_str_series(row.Merchant_ID))]

\* A bank line after the conversions of _prepare_data.
PrepareBankRow(row) ==
    [row EXCEPT !.Transaction_Narration = _safe_str_series(row.Transaction_Narration)]

\* body(value), the value computed once and held, as an assignment to a local
\* holds it.
Local(value, Body(_)) ==
    CHOOSE out \in {Body(held) : held \in {value}} : TRUE

PrepareTable(df, PrepareRow(_)) ==
    [i \in 1..Len(df) |-> PrepareRow(df[i])]

\* self.card_df[self.card_df['date_created'] == self.run_date]
FilterRunDate(df, date) ==
    Filter(df, LAMBDA row : row.date_created = date)

\* The three normalised configured identifiers.
NormalizedMerchantIds ==
    [interswitch_unity |-> _normalize_merchant_id_value(settings_merchant_id_interswitch_unity),
     nibss_unity |-> _normalize_merchant_id_value(settings_merchant_id_nibss_unity),
     nibss_parallex |-> _normalize_merchant_id_value(settings_merchant_id_nibss_parallex)]

\* No result, metric or attribute set yet.
Unset == [x \in {} |-> <<>>]

\* The six working tables after the column assignments of _prepare_data,
\* which write into the tables the attributes name.
ConvertedTables(s) ==
    [card_df |-> PrepareTable(s.card_df, PrepareCardRow),
     nibss_unity_settlement_df |-> PrepareTable(s.nibss_unity_settlement_df, PrepareSettlementRow),
     unity_settlement |-> PrepareTable(s.unity_settlement, PrepareSettlementRow),
     parallex_nibss |-> PrepareTable(s.parallex_nibss, PrepareSettlementRow),
     collection_account_unity |-> PrepareTable(s.collection_account_unity, PrepareBankRow),
     collection_account_parallex |-> PrepareTable(s.collection_account_parallex, PrepareBankRow)]

\* _prepare_data: the instance after the stage.  The filter by run date binds
\* card_df to a new table.
_prepare_data(s) ==
    Local(ConvertedTables(s),
      LAMBDA converted :
        [card_df |-> FilterRunDate(converted.card_df, s.run_date),
         shared |-> s.shared \ {"card_df"},
         merchant_id_interswitch_unity |-> NormalizedMerchantIds.interswitch_unity,
         merchant_id_nibss_unity |-> NormalizedMerchantIds.nibss_unity,
         merchant_id_nibss_parallex |-> NormalizedMerchantIds.nibss_parallex]
            @@ converted @@ s)

(***************************************************************************)
(* _process_card_transactions                                              *)
(***************************************************************************)
\* A mutant: the transactions of every response code.
AnyResponseCode(df) ==
    df

\* cashout_trans: the successful transactions.
Successful(df) ==
    Filter(df, LAMBDA row : row.host_resp_code = 0)

\* cashout_trans[cashout_trans['merchant_id'] == merchant_id]
ChannelSubset(df, merchant_id) ==
    Filter(df, LAMBDA row : row.merchant_id = merchant_id)

\* fee, cost_of_acquisition, agent_commission and Gross of an Interswitch row
WithInterswitchFees(row) ==
    LET fee == row.liberty_commission
        cost == isw_cost_of_acquisition * Unit
        comm == isw_agent_commission * Unit
    IN  [fee |-> fee, cost_of_acquisition |-> cost, agent_commission |-> comm,
         Gross |-> Round2(fee - cost - comm)] @@ row

\* fee, cost_of_acquisition, agent_commission and Gross of a NIBSS row
WithNibssFees(row) ==
    LET fee == row.liberty_commission
        cost == row.amount * nibss_cost_rate
        comm == row.ro_profit
    IN  [fee |-> fee, cost_of_acquisition |-> cost, agent_commission |-> comm,
         Gross |-> Round2(fee - cost - comm)] @@ row

\* df.agg({amount: sum, id: count, fee: sum, ...}).to_frame().T.round(2)
ChannelAggregate(df) ==
    [amount |-> Round2(Sum(df, LAMBDA row : row.amount * Unit)),
     id |-> Len(df),
     fee |-> Round2(Sum(df, LAMBDA row : row.fee)),
     cost_of_acquisition |-> Round2(Sum(df, LAMBDA row : row.cost_of_acquisition)),
     agent_commission |-> Round2(Sum(df, LAMBDA row : row.agent_commission)),
     Gross |-> Round2(Sum(df, LAMBDA row : row.Gross))]

\* The aggregate of the MERCHANT rows.
PayboxAggregate(df) ==
    LET paybox == Filter(df, LAMBDA row : row.type_of_user = "MERCHANT")
    IN  [amount |-> Round2(Sum(paybox, LAMBDA row : row.amount * Unit)),
         id |-> Len(paybox),
         liberty_commission |-> Round2(Sum(paybox, LAMBDA row : row.liberty_commission)),
         ro_profit |-> Round2(Sum(paybox, LAMBDA row : row.ro_profit))]

\* results with results[name] = table for the names of new.
Store(old, new) ==
    new @@ old

\* _process_card_transactions: the instance after the stage.
_process_card_transactions(s) ==
    LET cashout == Successful(s.card_df)
        isw == PrepareTable(ChannelSubset(cashout, s.merchant_id_interswitch_unity),
                            WithInterswitchFees)
        nibss == PrepareTable(ChannelSubset(cashout, s.merchant_id_nibss_unity),
                              WithNibssFees)
        plx == PrepareTable(ChannelSubset(cashout, s.merchant_id_nibss_parallex),
                            WithNibssFees)
    IN  [cashout_trans |-> cashout,
         interswitch_unity |-> isw,
         nibss_unity |-> nibss,
         nibss_parallex |-> plx,
         results |-> Store(s.results,
             [paybox_trans_df |-> <<PayboxAggregate(cashout)>>,
              interswitch_unity_df |-> <<ChannelAggregate(isw)>>,
              nibss_unity_df |-> <<ChannelAggregate(nibss)>>,
              nibss_parallex_df |-> <<ChannelAggregate(plx)>>])] @@ s

(***************************************************************************)
(* _process_settlements                                                    *)
(***************************************************************************)
\* The key column of a table.
reference_numbers(df) ==
    [i \in 1..Len(df) |-> df[i].reference_number]

Retrieval_Reference_Nrs(df) ==
    [i \in 1..Len(df) |-> df[i].Retrieval_Reference_Nr]

\* df[df['Local_Date_Time'].dt.date == run_date]
SettledOn(df, date) ==
    Filter(df, LAMBDA row : row.Local_Date_Time # NaT /\ row.Local_Date_Time = date)

\* df[df['Merchant_ID'] == merchant_id]
SettledFor(df, merchant_id) ==
    Filter(df, LAMBDA row : row.Merchant_ID = merchant_id)

\* The settlement rows a NIBSS channel retains: run date, merchant, no duplicates.
RetainedSettlement(df, date, merchant_id) ==
    drop_duplicates(SettledFor(SettledOn(df, date), merchant_id))

\* The settlement rows the Interswitch channel retains: run date, no duplicates.
RetainedInterswitch(df, date) ==
    drop_duplicates(SettledOn(df, date))

\* sett.agg({Tran_Amount_Req: sum, Merchant_ID: count, ...}).to_frame().T.round(2)
SettlementAggregate(df) ==
    [Tran_Amount_Req |-> Round2(Sum(df, LAMBDA row : row.Tran_Amount_Req * Unit)),
     Merchant_ID |-> Len(df)]

\* unity_isw.agg({Tran_Amount_Req: sum, Merchant_ID: count}).to_frame().T
InterswitchAggregate(df) ==
    [Tran_Amount_Req |-> Sum(df, LAMBDA row : row.Tran_Amount_Req * Unit),
     Merchant_ID |-> Len(df)]

\* The transaction columns kept of a left_only row.
ClaimColumns(x) ==
    [date_created |-> x.l.date_created, reference_number |-> x.l.reference_number,
     amount |-> x.l.amount, merchant_id |-> x.l.merchant_id]

\* The settlement columns kept of a right_only row.
ReportColumns(x) ==
    [Local_Date_Time |-> x.r.Local_Date_Time, Merchant_ID |-> x.r.Merchant_ID,
     STAN |-> x.r.STAN, Tran_Amount_Req |-> x.r.Tran_Amount_Req,
     Retrieval_Reference_Nr |-> x.r.Retrieval_Reference_Nr]

\* A mutant: the matched rows are reported as unsettled too.
UnsettledOrMatched(recon) ==
    LET rows == Filter(recon, LAMBDA x : x._merge # "right_only")
    IN  [i \in 1..Len(rows) |-> ClaimColumns(rows[i])]

\* recon_df[recon_df['_merge'] == 'left_only'][[transaction columns]]
UnsettledClaims(recon) ==
    LET rows == Filter(recon, LAMBDA x : x._merge = "left_only")
    IN  [i \in 1..Len(rows) |-> ClaimColumns(rows[i])]

\* A mutant: the matched settlement rows are reported as charge backs too.
SettledOrChargedBack(recon) ==
    LET rows == Filter(recon, LAMBDA x : x._merge # "left_only")
    IN  [i \in 1..Len(rows) |-> ReportColumns(rows[i])]

\* A mutant: only the first unmatched settlement row is reported.
FirstChargeBack(recon) ==
    LET rows == Filter(recon, LAMBDA x : x._merge = "right_only")
    IN  [i \in 1..(IF rows = <<>> THEN 0 ELSE 1) |-> ReportColumns(rows[i])]

\* recon_df[recon_df['_merge'] == 'right_only'][[settlement columns]]
ChargeBacks(recon) ==
    LET rows == Filter(recon, LAMBDA x : x._merge = "right_only")
    IN  [i \in 1..Len(rows) |-> ReportColumns(rows[i])]

\* The outer join of a channel's transactions with its retained settlement rows.
Reconcile(trans, sett) ==
    Merge(trans, reference_numbers(trans), sett, Retrieval_Reference_Nrs(sett))

\* Whether merge() refuses the key columns of a channel's join.
ReconcileRaises(trans, cardKeys, sett, rawSett) ==
    MergeRaises(reference_numbers(trans), Dtype(cardKeys),
                Retrieval_Reference_Nrs(sett), Dtype(Retrieval_Reference_Nrs(rawSett)))

\* The stage's result: the instance, the locals, and whether it raised.
Outcome(s, l, raised) ==
    [self |-> s, locals |-> l, raised |-> raised]

\* _process_settlements
_process_settlements(s) ==
    LET cardKeys == reference_numbers(s.raw_card_df)
        nibss_unity_sett == RetainedSettlement(s.nibss_unity_settlement_df, s.run_date,
                                               s.merchant_id_nibss_unity)
        unity_isw == RetainedInterswitch(s.unity_settlement, s.run_date)
        parallex_df == RetainedSettlement(s.parallex_nibss, s.run_date,
                                          s.merchant_id_nibss_parallex)
        recon_df == Reconcile(s.nibss_unity, nibss_unity_sett)
        isw_recon == MergeInner(s.interswitch_unity, reference_numbers(s.interswitch_unity),
                                unity_isw, Retrieval_Reference_Nrs(unity_isw))
        isw_recon_df == Reconcile(s.interswitch_unity, unity_isw)
        parallex_recon_df == Reconcile(s.nibss_parallex, parallex_df)
        r1 == Store(s.results,
                    [nibss_unity_settlement |-> <<SettlementAggregate(nibss_unity_sett)>>])
        r2 == Store(r1, [unsettled_claim |-> UnsettledClaims(recon_df),
                         charge_back |-> ChargeBacks(recon_df)])
        r3 == Store(r2, [unity_isw_agg |-> <<InterswitchAggregate(unity_isw)>>])
        r4 == Store(r3, [isw_unsettled_claim |-> UnsettledClaims(isw_recon_df),
                         isw_charge_back |-> ChargeBacks(isw_recon_df)])
        r5 == Store(r4, [parallex_nibss_df |-> <<SettlementAggregate(parallex_df)>>])
        r6 == Store(r5, [parallex_unsettled_claim |-> UnsettledClaims(parallex_recon_df),
                         parallex_charge_back |-> ChargeBacks(parallex_recon_df)])
        l1 == [nibss_unity_sett |-> nibss_unity_sett]
        l2 == [recon_df |-> recon_df, unity_isw |-> unity_isw] @@ l1
        l3 == [isw_recon_df |-> isw_recon_df, parallex_df |-> parallex_df] @@ l2
        l4 == [parallex_recon_df |-> parallex_recon_df] @@ l3
    IN  IF ReconcileRaises(s.nibss_unity, cardKeys, nibss_unity_sett,
                           s.raw_nibss_unity_settlement_df)
        THEN Outcome([results |-> r1] @@ s, l1, TRUE)
        ELSE IF ReconcileRaises(s.interswitch_unity, cardKeys, unity_isw,
                                s.raw_unity_settlement)
        THEN Outcome([results |-> r3] @@ s, l2, TRUE)
        ELSE IF ReconcileRaises(s.nibss_parallex, cardKeys, parallex_df,
                                s.raw_parallex_nibss)
        THEN Outcome([results |-> r5, isw_recon |-> isw_recon] @@ s, l3, TRUE)
        ELSE Outcome([results |-> r6, isw_recon |-> isw_recon, unity_isw |-> unity_isw] @@ s,
                     l4, FALSE)

(***************************************************************************)
(* Narration text.                                                         *)
(***************************************************************************)
\* The position of the first atom of s at or after i that is no white space
\* (Len(s) + 1 if there is none).
RECURSIVE SkipSpaces(_, _)
SkipSpaces(s, i) ==
    IF i <= Len(s) /\ IsSpace(s[i]) THEN SkipSpaces(s, i + 1) ELSE i

\* \d{n} matches at position i.
DigitsAt(s, i, n) ==
    /\ i >= 1 /\ i + n - 1 <= Len(s)
    /\ \A k \in i..(i + n - 1) : s[k] \in Digits

\* \d{2}\s+\d{2}\s+\d{4}- matches at position i.
DateTokenAt(s, i) ==
    /\ DigitsAt(s, i, 2)
    /\ LET j == SkipSpaces(s, i + 2)
       IN  /\ j > i + 2
           /\ DigitsAt(s, j, 2)
           /\ LET k == SkipSpaces(s, j + 2)
              IN  /\ k > j + 2
                  /\ DigitsAt(s, k, 4)
                  /\ k + 4 <= Len(s)
                  /\ s[k + 4] = "-"

\* The white space at position i follows a run of at least 9 digits and is
\* followed by the date token: (\d{9,12})\s+(\d{2}\s+\d{2}\s+\d{4}-) matches
\* around it.
GapAt(s, i) ==
    /\ i <= Len(s) /\ IsSpace(s[i])
    /\ DigitsAt(s, i - 9, 9)
    /\ DateTokenAt(s, SkipSpaces(s, i))

\* str.replace(r'(\d{9,12})\s+(\d{2}\s+\d{2}\s+\d{4}-)', r'\1 - \2', regex=True)
RECURSIVE FixNarration(_)
FixNarration(text) ==
    CHOOSE fixed \in
        {LET gaps == {i \in 1..Len(s) : GapAt(s, i)}
         IN  IF gaps = {} THEN s
             ELSE LET i == CHOOSE g \in gaps : \A h \in gaps : g <= h
                      j == SkipSpaces(s, i)
                  IN  Slice(s, 1, i - 1) \o <<" ", "-", " ">>
                      \o FixNarration(Slice(s, j, Len(s))) : s \in {text}} : TRUE

\* str.split(sep) for a separator of one atom.
RECURSIVE SplitOn(_, _)
SplitOn(text, sep) ==
    CHOOSE parts \in
        {LET at == {i \in 1..Len(s) : s[i] = sep}
         IN  IF at = {} THEN <<s>>
             ELSE LET i == CHOOSE g \in at : \A h \in at : g <= h
                  IN  <<Slice(s, 1, i - 1)>> \o SplitOn(Slice(s, i + 1, Len(s)), sep) :
         s \in {text}} : TRUE

\* re.split(r'\s*-\s*', s): the white space around a hyphen goes with it.
SplitHyphen(s) ==
    LET parts == SplitOn(s, "-")
        n == Len(parts)
    IN  [i \in 1..n |->
            LET right == IF i < n THEN RStrip(parts[i]) ELSE parts[i]
            IN  IF i > 1 THEN LStrip(right) ELSE right]

\* The digits left of an atom by str.replace(r"\D", "").
DigitsOfAtom(a) ==
    IF a \in Digits THEN <<a>>
    ELSE IF a \in {"2LBP", "2lbp"} THEN <<"2">>
    ELSE <<>>

\* str.replace(r"\s+", "").str.replace(r"\D", "")
DigitsOnly(s) ==
    Concat([i \in 1..Len(s) |-> DigitsOfAtom(s[i])])

\* str[-n:]
Last(s, n) ==
    IF Len(s) <= n THEN s ELSE Slice(s, Len(s) - n + 1, Len(s))

\* The groups of s between runs of white space.
RECURSIVE Words(_)
Words(text) ==
    CHOOSE words \in
        {LET at == {i \in 1..Len(t) : IsSpace(t[i])}
         IN  IF t = <<>> THEN <<>>
             ELSE IF at = {} THEN <<t>>
             ELSE LET i == CHOOSE g \in at : \A h \in at : g <= h
                  IN  <<Slice(t, 1, i - 1)>> \o Words(Slice(t, i, Len(t))) :
         t \in {LStrip(text)}} : TRUE

\* pd.to_datetime(cell, format='%d %m %Y', errors='coerce'); a null cell is NaT.
ToDatetimeDayMonthYear(cell) ==
    IF cell = NA THEN NaT
    ELSE LET w == Words(cell)
         IN  IF /\ cell # <<>> /\ ~IsSpace(cell[1]) /\ ~IsSpace(cell[Len(cell)])
                /\ Len(w) = 3
                /\ \A i \in 1..3 : IsDigitText(w[i])
                /\ Len(w[1]) \in {1, 2} /\ Len(w[2]) \in {1, 2} /\ Len(w[3]) = 4
             THEN MkDate(Num(w[3]), Num(w[2]), Num(w[1]))
             ELSE NaT

\* int(cell) succeeds.
IsIntText(cell) ==
    cell # NA /\ IsDigitText(Strip(cell))

(***************************************************************************)
(* _process_bank_statements                                                *)
(***************************************************************************)
\* narration.str.upper().str.startswith('2LBP')
IsIswCollection(row) ==
    StartsWith(Upper(_safe_str_series(row.Transaction_Narration)), <<"2LBP">>)

\* narration.str.strip().str.endswith('NEFT')
IsNeft(row) ==
    EndsWith(Strip(_safe_str_series(row.Transaction_Narration)), <<"NEFT">>)

\* narration.str.strip().str.startswith('BEING')
IsBeing(row) ==
    StartsWith(Strip(_safe_str_series(row.Transaction_Narration)), <<"BEING">>)

\* narration.str.startswith('RVSL')
IsReversal(row) ==
    StartsWith(_safe_str_series(row.Transaction_Narration), <<"RVSL">>)

\* narration.str.endswith('TRANSACTION')
EndsWithTransaction(row) ==
    EndsWith(_safe_str_series(row.Transaction_Narration), <<"TRANSACTION">>)

\* narration.str.startswith('DAILY')
IsDaily(row) ==
    StartsWith(_safe_str_series(row.Transaction_Narration), <<"DAILY">>)

\* The fields of an ISW-collection narration, repaired and split.
IswFields(row) ==
    SplitHyphen(FixNarration(_safe_str_series(row.Transaction_Narration)))

\* The number of columns str.split(expand=True) gives: that of the longest row.
ExpandedColumns(df) ==
    IF df = <<>> THEN 0
    ELSE CHOOSE n \in {Len(IswFields(df[i])) : i \in 1..Len(df)} :
             \A i \in 1..Len(df) : Len(IswFields(df[i])) <= n

\* Column k of the expanded split of a row: None past the row's last field.
Field(row, k) ==
    IF k <= Len(IswFields(row)) THEN IswFields(row)[k] ELSE NA

\* The number of columns the split is assigned to: tid, stans, pan, rrn, t_date, narration.
IswColumns == 6

\* The assignment of the split to the six columns, or astype('int') of rrn, raises.
IswParseRaises(df) ==
    \/ ExpandedColumns(df) # IswColumns
    \/ \E i \in 1..Len(df) : ~IsIntText(Field(df[i], 4))

\* An ISW-collection line with its six parsed columns.
WithIswFields(row) ==
    [tid |-> Field(row, 1), stans |-> Field(row, 2), pan |-> Field(row, 3),
     rrn |-> IntKey(Num(Strip(Field(row, 4)))), t_date |-> Field(row, 5),
     narration |-> Field(row, 6)] @@ row

rrns(df) ==
    [i \in 1..Len(df) |-> df[i].rrn]

\* The key column of the settlement-matched Interswitch rows.
matched_reference_numbers(df) ==
    [i \in 1..Len(df) |-> df[i].l.reference_number]

\* The transaction columns kept of a bank left_only row.
BankClaimColumns(x) ==
    [date_created |-> x.l.l.date_created, reference_number |-> x.l.l.reference_number,
     amount |-> x.l.l.amount, merchant_id |-> x.l.l.merchant_id]

\* The bank columns kept of a bank right_only row, t_date parsed.
BankReportColumns(x) ==
    [Transaction_Narration |-> x.r.Transaction_Narration, Value_Date |-> x.r.Value_Date,
     Credit |-> x.r.Credit, rrn |-> x.r.rrn,
     t_date |-> ToDatetimeDayMonthYear(x.r.t_date)]

\* not_isw_b_recon[_merge == 'left_only'][[transaction columns]]
BankUnsettledClaims(recon) ==
    LET rows == Filter(recon, LAMBDA x : x._merge = "left_only")
    IN  [i \in 1..Len(rows) |-> BankClaimColumns(rows[i])]

\* not_isw_b_recon[_merge == 'right_only'][[bank columns]]
BankChargeBacks(recon) ==
    LET rows == Filter(recon, LAMBDA x : x._merge = "right_only")
    IN  [i \in 1..Len(rows) |-> BankReportColumns(rows[i])]

\* A mutant: the bank charge-backs of every narration date.
AnyNarrationDate(df, unique_date) ==
    df

\* isw_b_charge_back[isw_b_charge_back['t_date'].dt.date == unique_date]
OnNarrationDate(df, unique_date) ==
    Filter(df, LAMBDA row : row.t_date # NaT /\ row.t_date = unique_date)

\* self.unity_isw.empty or self.unity_isw['Local_Date_Time'].isna().all()
NoReferenceDate(df) ==
    \/ df = <<>>
    \/ \A i \in 1..Len(df) : df[i].Local_Date_Time = NaT

\* self.unity_isw['Local_Date_Time'].dt.date.iloc[0]
UniqueDate(df) ==
    df[1].Local_Date_Time

(***************************************************************************)
(* _process_nibss_unity_bank_statement                                     *)
(***************************************************************************)
\* narration.str.split('#').str.get(-3), then strip, digits only, last 8.
RawDate(row) ==
    LET parts == SplitOn(_safe_str_series(row.Transaction_Narration), "#")
        third == IF Len(parts) >= 3 THEN parts[Len(parts) - 2] ELSE NA
    IN  Last(DigitsOnly(Strip(_safe_str_series(third))), 8)

\* collection_unity with its raw_date and new_date columns.
WithNarrationDate(row) ==
    [raw_date |-> RawDate(row), new_date |-> _parse_mixed_date(RawDate(row))] @@ row

\* A mutant: the NEFT lines of every narration date are summed.
NeftCreditAnyDate(df, unique_date) ==
    LET nerf == Filter(df, IsNeft)
    IN  IF nerf = <<>> THEN <<>>
        ELSE <<[new_date |-> unique_date, Credit |-> Sum(nerf, LAMBDA row : row.Credit)]>>

\* groupby(['new_date'])['Credit'].sum() of the NEFT lines, the group of unique_date.
NeftCredit(df, unique_date) ==
    LET nerf == Filter(df, IsNeft)
        group == Filter(nerf, LAMBDA row : row.new_date # NaT /\ row.new_date = unique_date)
    IN  IF group = <<>> THEN <<>>
        ELSE <<[new_date |-> unique_date, Credit |-> Sum(group, LAMBDA row : row.Credit)]>>

\* df with 'Value Date' parsed, the rows whose value date is unique_date.
OnValueDate(df, unique_date) ==
    LET parsed == [i \in 1..Len(df) |->
                      [df[i] EXCEPT !.Value_Date = ToDatetime(df[i].Value_Date)]]
    IN  Filter(parsed, LAMBDA row : row.Value_Date # NaT /\ row.Value_Date = unique_date)

\* The column dropped from a row.
Drop(row, cols) ==
    [c \in DOMAIN row \ cols |-> row[c]]

\* being_nibss.drop(columns=['raw_date', 'new_date']), on the value date.
BeingSummary(df, unique_date) ==
    LET being == Filter(df, IsBeing)
    IN  OnValueDate([i \in 1..Len(being) |-> Drop(being[i], {"raw_date", "new_date"})],
                    unique_date)

(***************************************************************************)
(* _process_additional_bank_items                                          *)
(***************************************************************************)
\* cb: the RVSL lines on the value date.  The raw_date and new_date the code
\* derives for them from the narration are read nowhere and are left out.
Reversals(df, unique_date) ==
    LET rvsl == Filter(df, IsReversal)
    IN  OnValueDate([i \in 1..Len(rvsl) |-> Drop(rvsl[i], {"raw_date", "new_date"})],
                    unique_date)

\* The Transaction Narration column of a table, as a set.
Narrations(df) ==
    {df[i].Transaction_Narration : i \in 1..Len(df)}

\* A mutant: the ISW-collection narrations are not excluded.
ExcludeNarrationsNoIsw(df, cb) ==
    Narrations(Filter(df, IsBeing)) \cup Narrations(cb)

\* exclude_narrations: those of the ISW-collection, BEING and cb lines.
ExcludeNarrations(df, cb) ==
    Narrations(Filter(df, IsIswCollection)) \cup Narrations(Filter(df, IsBeing))
        \cup Narrations(cb)

\* tof_df
TerminalOwnerFees(df, cb, unique_date) ==
    LET tof == Filter(df, EndsWithTransaction)
        exclude == ExcludeNarrations(df, cb)
        kept == Filter(tof, LAMBDA row : row.Transaction_Narration \notin exclude)
    IN  OnValueDate(kept, unique_date)

\* ds
DailySweeps(tof) ==
    Filter(tof, IsDaily)

\* The stage from the six result tables on: what it stores and returns.
BankResults(s, parsed, not_isw_b_recon, unique_date, collection_unity, cb, tof_df) ==
    Outcome([results |-> Store(s.results,
                [isw_b_unsettled_claim |-> BankUnsettledClaims(not_isw_b_recon),
                 isw_b_charge_back |->
                     OnNarrationDate(BankChargeBacks(not_isw_b_recon), unique_date),
                 nerf_nibss_b_credit |-> NeftCredit(collection_unity, unique_date),
                 being_nibss_summary |-> BeingSummary(collection_unity, unique_date),
                 cb |-> cb,
                 tof_df |-> tof_df,
                 ds |-> DailySweeps(tof_df)]),
             collection_account_unity |-> collection_unity,
             shared |-> s.shared \ {"collection_account_unity"}] @@ s,
            [isw_collection |-> parsed, not_isw_b_recon |-> not_isw_b_recon,
             unique_date |-> unique_date],
            FALSE)

\* A mutant: the early return comes before the six empty tables are stored.
BankReturnsEarlier(s, parsed, not_isw_b_recon) ==
    Outcome([results |-> Store(s.results,
                [isw_b_unsettled_claim |-> BankUnsettledClaims(not_isw_b_recon)])] @@ s,
            [isw_collection |-> parsed, not_isw_b_recon |-> not_isw_b_recon],
            FALSE)

\* The stage with no reference date: the early return of the degenerate case.
BankDegenerate(s, parsed, not_isw_b_recon) ==
    Outcome([results |-> Store(s.results,
                [isw_b_unsettled_claim |-> BankUnsettledClaims(not_isw_b_recon),
                 isw_b_charge_back |-> <<>>, nerf_nibss_b_credit |-> <<>>,
                 being_nibss_summary |-> <<>>, cb |-> <<>>,
                 tof_df |-> <<>>, ds |-> <<>>])] @@ s,
            [isw_collection |-> parsed, not_isw_b_recon |-> not_isw_b_recon],
            FALSE)

\* The stage from the bank reconciliation on, with the two methods it calls.
BankReconciled(s, parsed, not_isw_b_recon) ==
    IF NoReferenceDate(s.unity_isw) THEN BankDegenerate(s, parsed, not_isw_b_recon)
    ELSE Local(PrepareTable(s.collection_account_unity, WithNarrationDate),
           LAMBDA collection_unity :
         Local(Reversals(collection_unity, UniqueDate(s.unity_isw)),
           LAMBDA cb :
         Local(TerminalOwnerFees(collection_unity, cb, UniqueDate(s.unity_isw)),
           LAMBDA tof_df :
         BankResults(s, parsed, not_isw_b_recon, UniqueDate(s.unity_isw),
                     collection_unity, cb, tof_df))))

\* The stage from the parsed ISW-collection lines on.
BankParsed(s, parsed) ==
    IF MergeRaises(matched_reference_numbers(s.isw_recon),
                   Dtype(reference_numbers(s.raw_card_df)), rrns(parsed), "int64")
    THEN Outcome(s, [isw_collection |-> parsed], TRUE)
    ELSE Local(Merge(s.isw_recon, matched_reference_numbers(s.isw_recon),
                     parsed, rrns(parsed)),
           LAMBDA not_isw_b_recon : BankReconciled(s, parsed, not_isw_b_recon))

\* _process_bank_statements
_process_bank_statements(s) ==
    Local(Filter(s.collection_account_unity, IsIswCollection),
      LAMBDA isw_collection :
        IF IswParseRaises(isw_collection)
        THEN Outcome(s, [isw_collection |-> isw_collection], TRUE)
        ELSE Local(PrepareTable(isw_collection, WithIswFields),
               LAMBDA parsed : BankParsed(s, parsed)))

(***************************************************************************)
(* _generate_metrics                                                       *)
(***************************************************************************)
\* df[column].sum() if not df.empty else 0, for an amount in currency units
TotalOf(df, Col(_)) ==
    IF df = <<>> THEN 0 ELSE Sum(df, LAMBDA row : Col(row) * Unit)

Tran_Amount_Req(row) == row.Tran_Amount_Req

amount(row) == row.amount

Credit(row) == row.Credit

\* A mutant: the Parallex channel is left out of the revenue total.
TotalRevenueWithoutParallex(r) ==
    r.nibss_unity_df[1].Gross + r.interswitch_unity_df[1].Gross

\* total_revenue
TotalRevenue(r) ==
    r.nibss_unity_df[1].Gross + r.interswitch_unity_df[1].Gross
        + r.nibss_parallex_df[1].Gross

\* total_settlement
TotalSettlement(r) ==
    r.nibss_unity_settlement[1].Tran_Amount_Req + r.unity_isw_agg[1].Tran_Amount_Req
        + r.parallex_nibss_df[1].Tran_Amount_Req

\* total_settlement_charge_back
TotalSettlementChargeBack(r) ==
    TotalOf(r.charge_back, Tran_Amount_Req) + TotalOf(r.isw_charge_back, Tran_Amount_Req)
        + TotalOf(r.parallex_charge_back, Tran_Amount_Req)

\* total_settlement_unsettled_claims
TotalSettlementUnsettledClaims(r) ==
    TotalOf(r.unsettled_claim, amount) + TotalOf(r.isw_unsettled_claim, amount)
        + TotalOf(r.parallex_unsettled_claim, amount)

\* The metrics snapshot built from the results.
Metrics(r, run_date) ==
    [run_date |-> run_date,
     total_revenue |-> TotalRevenue(r),
     total_settlement |-> TotalSettlement(r),
     total_settlement_charge_back |-> TotalSettlementChargeBack(r),
     total_settlement_unsettled_claims |-> TotalSettlementUnsettledClaims(r),
     total_bank_isw_unsettled_claims |-> TotalOf(r.isw_b_unsettled_claim, amount),
     total_bank_isw_charge_back |-> TotalOf(r.isw_b_charge_back, Credit),
     channels |->
        [NIBSS |->
            [revenue |-> r.nibss_unity_df[1].Gross,
             settlement |-> r.nibss_unity_settlement[1].Tran_Amount_Req,
             charge_back |-> TotalOf(r.charge_back, Tran_Amount_Req),
             unsettled_claim |-> TotalOf(r.unsettled_claim, amount)],
         INTERSWITCH |->
            [revenue |-> r.interswitch_unity_df[1].Gross,
             settlement |-> r.unity_isw_agg[1].Tran_Amount_Req,
             charge_back |-> TotalOf(r.isw_charge_back, Tran_Amount_Req),
             unsettled_claim |-> TotalOf(r.isw_unsettled_claim, amount)],
         PARALLEX |->
            [revenue |-> r.nibss_parallex_df[1].Gross,
             settlement |-> r.parallex_nibss_df[1].Tran_Amount_Req,
             charge_back |-> TotalOf(r.parallex_charge_back, Tran_Amount_Req),
             unsettled_claim |-> TotalOf(r.parallex_unsettled_claim, amount)],
         ISW_Bank |->
            [charge_back |-> TotalOf(r.isw_b_unsettled_claim, amount),
             unsettled_claim |-> TotalOf(r.isw_b_charge_back, Credit)]]]

\* _generate_metrics: the instance after the stage.
_generate_metrics(s) ==
    [metrics |-> Metrics(s.results, s.run_date)] @@ s

(***************************************************************************)
(* _prepare_output_datasets                                                *)
(***************************************************************************)
\* pd.concat([a, b], axis=1) of two tables whose row labels are disjoint or
\* of two one-row aggregates (both labelled 0): the rows side by side, the
\* columns a table lacks for a label left empty.
ConcatColumns(a, b, sameLabels) ==
    IF sameLabels
    THEN [i \in 1..(IF Len(a) >= Len(b) THEN Len(a) ELSE Len(b)) |->
             [left |-> IF i <= Len(a) THEN a[i] ELSE NoRow,
              right |-> IF i <= Len(b) THEN b[i] ELSE NoRow]]
    ELSE [i \in 1..Len(a) |-> [left |-> a[i], right |-> NoRow]]
         \o [i \in 1..Len(b) |-> [left |-> NoRow, right |-> b[i]]]

\* df.insert(0, "run_date", run_date) unless df.empty
InsertRunDate(df, run_date) ==
    [i \in 1..Len(df) |-> [run_date |-> run_date] @@ df[i]]

\* An output table: the columns inserted in front of it, and its rows.
WithRunDate(df, run_date) ==
    [first_columns |-> IF df = <<>> THEN <<>> ELSE <<"run_date">>,
     rows |-> InsertRunDate(df, run_date)]

\* The names of the output datasets that are the result tables themselves.
SharedDatasets ==
    {"paybox_trans_df", "nerf_nibss_b_credit", "being_nibss_summary", "cb", "tof_df", "ds"}

\* The local isw_unity: the Interswitch aggregate joined with its settlement
\* aggregate.  No output dataset is made of it.
isw_unity(r) ==
    ConcatColumns(r.interswitch_unity_df, r.unity_isw_agg, TRUE)

\* self.output_datasets before run_date is inserted
OutputTables(r) ==
    [paybox_trans_df |-> r.paybox_trans_df,
     nibss_parallex |-> ConcatColumns(r.nibss_parallex_df, r.parallex_nibss_df, TRUE),
     nibss_unity |-> ConcatColumns(r.nibss_unity_df, r.nibss_unity_settlement, TRUE),
     nibss_reconciliation |-> ConcatColumns(r.unsettled_claim, r.charge_back, FALSE),
     isw_reconciliation |-> ConcatColumns(r.isw_unsettled_claim, r.isw_charge_back, FALSE),
     parallex_reconciliation |->
         ConcatColumns(r.parallex_unsettled_claim, r.parallex_charge_back, FALSE),
     isw_bank_reconciliation |->
         ConcatColumns(r.isw_b_unsettled_claim, r.isw_b_charge_back, FALSE),
     nerf_nibss_b_credit |-> r.nerf_nibss_b_credit,
     being_nibss_summary |-> r.being_nibss_summary,
     cb |-> r.cb,
     tof_df |-> r.tof_df,
     ds |-> r.ds]

\* _prepare_output_datasets: the instance after the stage.  The datasets that
\* are result tables are the same objects, so run_date is inserted in the
\* results as well.
_prepare_output_datasets(s) ==
    LET tables == OutputTables(s.results)
        out == [n \in DOMAIN tables |-> WithRunDate(tables[n], s.run_date)]
    IN  [output_datasets |-> out,
         results |-> [n \in DOMAIN s.results |->
                         IF n \in SharedDatasets THEN out[n].rows ELSE s.results[n]]] @@ s

(***************************************************************************)
(* The cells of the input tables.                                          *)
(***************************************************************************)
\* Two calendar days: the run date and the day after.
Day1 == [y |-> 2024, m |-> 1, d |-> 15]

Day2 == [y |-> 2024, m |-> 1, d |-> 16]

\* The date cells YYYY-MM-DD of the two days, and a cell that is no date.
Day1Cell == <<"2", "0", "2", "4", "-", "0", "1", "-", "1", "5">>

Day2Cell == <<"2", "0", "2", "4", "-", "0", "1", "-", "1", "6">>

NoDateCell == <<"n", "/", "a">>

\* The configured merchant identifiers as the sheets hold them.
IswCell == <<"2LBP87654321988">>

NibssCell == <<"2215LA525653900">>

ParallexCell == <<"21000000000000", "0">>

\* A card row of the sheet.  Amounts are in currency units, the commission
\* and the profit share in 1/10000 units.
CardRow(id, date, merchant, code, ref, amt) ==
    [id |-> id, date_created |-> date, merchant_id |-> merchant,
     host_resp_code |-> code, type_of_user |-> IF amt = 500 THEN "MERCHANT" ELSE "AGENT",
     amount |-> amt, liberty_commission |-> amt * 250 + 50, ro_profit |-> amt * 50,
     reference_number |-> ref]

\* A settlement row of a report.
SettlementRow(date, merchant, rrn, amt) ==
    [Local_Date_Time |-> date, Merchant_ID |-> merchant, STAN |-> 1,
     Retrieval_Reference_Nr |-> rrn, Tran_Amount_Req |-> amt]

\* A line of the bank statement.
BankRow(narration, valueDate) ==
    [Transaction_Narration |-> narration, Value_Date |-> valueDate, Credit |-> 700]

\* The amount a reference number stands for in the inputs.
AmountOf(key) ==
    IF key \in {IntKey(1), StrKey("A1")} THEN 1000 ELSE 500

(***************************************************************************)
(* __init__                                                                *)
(***************************************************************************)
\* A mutant: __init__ copies the card table and the settlement reports, and
\* works on the bank statements of sheets_data themselves.
CopiedButBankStatements ==
    {"card_df", "nibss_unity_settlement_df", "unity_settlement", "parallex_nibss"}

\* The tables of sheets_data of which __init__ makes a copy for the instance.
CopiedTables ==
    {"card_df", "nibss_unity_settlement_df", "unity_settlement", "parallex_nibss",
     "collection_account_unity", "collection_account_parallex"}

\* The instance with the working tables it shares with sheets_data as
\* sheets_data holds them now.
Bound(s, sheets_data) ==
    IF s.shared = {} THEN s
    ELSE [name \in DOMAIN s |->
             IF name \in s.shared THEN sheets_data[name] ELSE s[name]]

\* sheets_data after column assignments into the tables an instance shares.
WrittenThrough(sheets_data, shared, converted) ==
    [name \in DOMAIN sheets_data |->
        IF name \in shared THEN converted[name] ELSE sheets_data[name]]

\* The instance built from sheets_data and run_date.  shared: the working
\* tables that are the very tables of sheets_data and not a copy.
Construct(sheets_data, date) ==
    [run_date |-> date,
     shared |-> DOMAIN sheets_data \ CopiedTables,
     raw_card_df |-> sheets_data.card_df,
     raw_nibss_unity_settlement_df |-> sheets_data.nibss_unity_settlement_df,
     raw_unity_settlement |-> sheets_data.unity_settlement,
     raw_parallex_nibss |-> sheets_data.parallex_nibss,
     raw_collection_account_unity |-> sheets_data.collection_account_unity,
     raw_collection_account_parallex |-> sheets_data.collection_account_parallex,
     card_df |-> sheets_data.card_df,
     nibss_unity_settlement_df |-> sheets_data.nibss_unity_settlement_df,
     unity_settlement |-> sheets_data.unity_settlement,
     parallex_nibss |-> sheets_data.parallex_nibss,
     collection_account_unity |-> sheets_data.collection_account_unity,
     collection_account_parallex |-> sheets_data.collection_account_parallex,
     results |-> Unset,
     metrics |-> Unset]

\* sheets_data with the six tables.
SheetsData(card, nibss, isw, parallex, bank) ==
    [card_df |-> card, nibss_unity_settlement_df |-> nibss, unity_settlement |-> isw,
     parallex_nibss |-> parallex, collection_account_unity |-> bank,
     collection_account_parallex |-> <<>>]

(***************************************************************************)
(* run_full_reconciliation, one stage per step.                            *)
(***************************************************************************)
Step1PrepareData ==
    /\ pc = "constructed"
    /\ \E bound \in {Bound(self, sheets)} :
           /\ self' = _prepare_data(bound)
           /\ sheets' = WrittenThrough(sheets, bound.shared, ConvertedTables(bound))
    /\ pc' = "prepared"
    /\ UNCHANGED <<locals, fn_arg, fn_res, fn_res2, peer, files,
                 changed, request, response, tasks>>

Step2ProcessCardTransactions ==
    /\ pc = "prepared"
    /\ self' = _process_card_transactions(Bound(self, sheets))
    /\ pc' = "cards"
    /\ UNCHANGED <<locals, fn_arg, fn_res, fn_res2, sheets, peer, files,
                 changed, request, response, tasks>>

Step3ProcessSettlements ==
    /\ pc = "cards"
    /\ \E out \in {_process_settlements(Bound(self, sheets))} :
           /\ self' = out.self
           /\ locals' = out.locals
           /\ pc' = IF out.raised THEN "failed" ELSE "settled"
    /\ UNCHANGED <<fn_arg, fn_res, fn_res2, sheets, peer, files,
                 changed, request, response, tasks>>

Step4ProcessBankStatements ==
    /\ pc = "settled"
    /\ \E out \in {_process_bank_statements(Bound(self, sheets))} :
           /\ self' = out.self
           /\ locals' = out.locals @@ locals
           /\ pc' = IF out.raised THEN "failed" ELSE "banked"
    /\ UNCHANGED <<fn_arg, fn_res, fn_res2, sheets, peer, files,
                 changed, request, response, tasks>>

Step5GenerateMetrics ==
    /\ pc = "banked"
    /\ self' = _generate_metrics(Bound(self, sheets))
    /\ pc' = "metrics"
    /\ UNCHANGED <<locals, fn_arg, fn_res, fn_res2, sheets, peer, files,
                 changed, request, response, tasks>>

Step6PrepareOutputDatasets ==
    /\ pc = "metrics"
    /\ self' = _prepare_output_datasets(Bound(self, sheets))
    /\ locals' = [isw_unity |-> isw_unity(self.results)] @@ locals
    /\ pc' = "done"
    /\ UNCHANGED <<fn_arg, fn_res, fn_res2, sheets, peer, files,
                 changed, request, response, tasks>>

Next ==
    \/ Step1PrepareData
    \/ Step2ProcessCardTransactions
    \/ Step3ProcessSettlements
    \/ Step4ProcessBankStatements
    \/ Step5GenerateMetrics
    \/ Step6PrepareOutputDatasets

\* The run starts from the instance built from these sheets.
InitRun(sheets_data, date) ==
    /\ self = Construct(sheets_data, date)
    /\ locals = Unset
    /\ pc = "constructed"
    /\ fn_arg = <<>>
    /\ fn_res = <<>>
    /\ fn_res2 = <<>>
    /\ sheets = sheets_data
    /\ peer = Unset
    /\ files = Unset
    /\ changed = <<>>
    /\ request = Unset
    /\ response = Unset
    /\ tasks = <<>>

(***************************************************************************)
(* Narrations of bank lines.                                               *)
(***************************************************************************)
\* A retrieval reference number as the nine digits a narration carries.
RrnText(k) ==
    <<"0", "0", "0", "0", "0", "0", "0", "0">>
        \o <<CHOOSE a \in Digits : DigitVal(a) = k>>

\* The run date as an ISW narration writes it: DD MM YYYY.
DayMonthYear == <<"1", "5", " ", "0", "1", " ", "2", "0", "2", "4">>

\* The two days as the token a NEFT narration carries.
Day1Token == <<"2", "0", "2", "4", "0", "1", "1", "5">>

Day1TokenDayFirst == <<"1", "5", "0", "1", "2", "0", "2", "4">>

Day2Token == <<"2", "0", "2", "4", "0", "1", "1", "6">>

Sep == <<" ", "-", " ">>

\* An ISW-collection narration: tag and terminal, STAN, PAN, reference
\* number, date and trailing text, separated by hyphens.
IswNarration(tag, rrn, tail) ==
    <<tag, "T1">> \o Sep \o <<"S1">> \o Sep \o <<"P1">> \o Sep \o rrn \o Sep
        \o DayMonthYear \o <<"-">> \o tail

\* The same with no hyphen between the reference number and the date.
IswNarrationNoHyphen(rrn) ==
    <<"2LBP", "T1">> \o Sep \o <<"S1">> \o Sep \o <<"P1">> \o Sep \o rrn \o <<" ">>
        \o DayMonthYear \o <<"-", "POS">>

\* The same with the PAN field missing.
IswNarrationShort(rrn) ==
    <<"2LBP", "T1">> \o Sep \o <<"S1">> \o Sep \o rrn \o Sep
        \o DayMonthYear \o <<"-", "POS">>

\* The same with the trailing text field missing.
IswNarrationNoTail(rrn) ==
    <<"2LBP", "T1">> \o Sep \o <<"S1">> \o Sep \o <<"P1">> \o Sep \o rrn \o Sep
        \o DayMonthYear

\* A narration of fields separated by "#", the date token third from last.
HashNarration(first, token, last) ==
    <<first, "#">> \o token \o <<"#", "REF", "#", last>>

(***************************************************************************)
(* The reconciliation run on well-formed transactions.                     *)
(***************************************************************************)
MaxTrans == 2

MaxSett == 2

Channels == {"NIBSS", "INTERSWITCH", "PARALLEX"}

\* The reference numbers of a channel's transactions: integers on the
\* Interswitch channel, text on the NIBSS channels.
CardKeysOf(channel) ==
    CASE channel = "INTERSWITCH" -> {IntKey(1)}
      [] channel = "NIBSS" -> {StrKey("A1"), StrKey("B2")}
      [] channel = "PARALLEX" -> {StrKey("A1")}

\* The reference numbers of a channel's settlement report.
ReportKeysOf(channel) ==
    CASE channel = "INTERSWITCH" -> {IntKey(1), IntKey(2)}
      [] channel = "NIBSS" -> {StrKey("A1"), StrKey("B2")}
      [] channel = "PARALLEX" -> {StrKey("A1")}

\* The merchant identifier of a channel as a sheet holds it.
MerchantCell(channel) ==
    CASE channel = "INTERSWITCH" -> IswCell
      [] channel = "NIBSS" -> NibssCell
      [] channel = "PARALLEX" -> ParallexCell \o DotZero

\* Successful transactions of the run date, one kind per channel and key.
RunCardRows ==
    UNION {{CardRow(key, Day1Cell, MerchantCell(c), <<"0">>, key, AmountOf(key)) :
               key \in CardKeysOf(c)} : c \in Channels}

\* A row of a channel's settlement report: of the run date and the channel's
\* merchant ("ok"), of the day after ("late"), or of another merchant
\* ("foreign").
ReportRow(c, key, variant) ==
    [report |-> c,
     row |-> SettlementRow(IF variant = "late" THEN Day2Cell ELSE Day1Cell,
                           IF variant = "foreign" THEN <<"OTHER">> ELSE MerchantCell(c),
                           key, AmountOf(key))]

VariantsOf(channel) ==
    CASE channel = "INTERSWITCH" -> {"ok", "late"}
      [] channel = "NIBSS" -> {"ok", "late", "foreign"}
      [] channel = "PARALLEX" -> {"ok"}

ReportRows ==
    UNION {{ReportRow(c, key, variant) :
               key \in ReportKeysOf(c), variant \in VariantsOf(c)} : c \in Channels}

\* The rows of the pool that belong to a report, as that report's table.
ReportOf(pool, c) ==
    LET mine == Filter(pool, LAMBDA x : x.report = c)
    IN  [i \in 1..Len(mine) |-> mine[i].row]

\* Bank statements: one with a well-formed ISW line and a fee line, one with
\* no ISW line, one with an ISW line that lacks a field.
RunBankStatements ==
    {<<BankRow(IswNarration("2LBP", RrnText(1), <<"POS">>), Day1Cell),
       BankRow(<<"POS", " ", "TRANSACTION">>, Day1Cell)>>,
     <<BankRow(HashNarration("NIP", Day1Token, "NEFT"), Day1Cell)>>,
     <<BankRow(IswNarrationShort(RrnText(1)), Day1Cell)>>}

Init ==
    \E card \in SeqsUpTo(RunCardRows, MaxTrans),
       pool \in SeqsUpTo(ReportRows, MaxSett),
       bank \in RunBankStatements :
        InitRun(SheetsData(card, ReportOf(pool, "NIBSS"), ReportOf(pool, "INTERSWITCH"),
                           ReportOf(pool, "PARALLEX"), bank), Day1)

Spec == Init /\ [][Next]_vars

(***************************************************************************)
(* The run on card rows of any date, response code and merchant.           *)
(***************************************************************************)
MaxCardRows == 2

\* Merchant cells: configured identifiers as they are, padded, with the
\* ".0" of a number read as a float, and cells that are none of them.
CardMerchantCells ==
    {IswCell, <<" ">> \o NibssCell \o <<" ">>, ParallexCell \o DotZero, ParallexCell,
     NibssCell \o DotZero \o DotZero, <<"OTHER">>, NA}

CardDateCells == {Day1Cell, Day2Cell, NoDateCell}

ResponseCodeCells == {<<"0">>, <<"0", "0">>, <<"5">>, <<"x">>}

\* The card table of these cells, its rows numbered by id.
CardTable(cells) ==
    [i \in 1..Len(cells) |->
        CardRow(i, cells[i].date, cells[i].merchant, cells[i].code, IntKey(1), 1000)]

InitCard ==
    \E cells \in SeqsUpTo([date : CardDateCells, merchant : CardMerchantCells,
                           code : ResponseCodeCells], MaxCardRows) :
        InitRun(SheetsData(CardTable(cells), <<>>,
                           <<SettlementRow(Day1Cell, IswCell, IntKey(1), 1000)>>, <<>>,
                           <<BankRow(IswNarration("2LBP", RrnText(1), <<"POS">>), Day1Cell)>>),
                Day1)

SpecCard == InitCard /\ [][Next]_vars

(***************************************************************************)
(* The run on bank statements of any lines.                                *)
(***************************************************************************)
MaxBankLines == 2

BankNarrations ==
    {IswNarration("2LBP", RrnText(1), <<"POS">>),
     IswNarration("2lbp", RrnText(2), <<"POS", " ", "TRANSACTION">>),
     IswNarrationNoHyphen(RrnText(1)),
     IswNarrationShort(RrnText(1)),
     IswNarrationNoTail(RrnText(1)),
     IswNarration("2LBP", <<"RX">>, <<"POS">>),
     HashNarration("NIP", Day1Token, "NEFT"),
     HashNarration("NIP", Day2Token, "NEFT"),
     HashNarration("NIP", Day1TokenDayFirst, "NEFT"),
     HashNarration("BEING", Day1Token, "NEFT"),
     HashNarration("RVSL", Day1Token, "NEFT"),
     <<"BEING", " ", "SETTLEMENT", " ", "TRANSACTION">>,
     <<" ", "BEING", " ", "TRANSACTION">>,
     <<"RVSL", "-", "POS", " ", "TRANSACTION">>,
     <<"POS", " ", "TRANSACTION">>,
     <<"DAILY", " ", "SWEEP", " ", "TRANSACTION">>,
     <<"CHARGES">>,
     NA}

BankLines ==
    {BankRow(n, v) : n \in BankNarrations, v \in {Day1Cell, Day2Cell, NoDateCell}}

InitBank ==
    \E bank \in SeqsUpTo(BankLines, MaxBankLines),
       card \in {<<>>, <<CardRow(1, Day1Cell, IswCell, <<"0">>, IntKey(1), 1000)>>},
       isw \in {<<>>, <<SettlementRow(Day1Cell, IswCell, IntKey(1), 1000)>>} :
        InitRun(SheetsData(card, <<>>, isw, <<>>, bank), Day1)

SpecBank == InitBank /\ [][Next]_vars

\* run_full_reconciliation as one function of the inputs: the instance and
\* the locals it ends with, and whether it raised.
run_full_reconciliation(sheets_data, date) ==
    LET s2 == _process_card_transactions(_prepare_data(Construct(sheets_data, date)))
        o3 == _process_settlements(s2)
        o4 == _process_bank_statements(o3.self)
    IN  IF o3.raised THEN o3
        ELSE IF o4.raised THEN Outcome(o4.self, o4.locals @@ o3.locals, TRUE)
        ELSE Outcome(_prepare_output_datasets(_generate_metrics(o4.self)),
                     [isw_unity |-> isw_unity(o4.self.results)] @@ o4.locals @@ o3.locals,
                     FALSE)

\* No run of the pipeline: the state of a specification that calls a helper.
NoInstance ==
    /\ self = Unset
    /\ locals = Unset
    /\ sheets = Unset
    /\ peer = Unset
    /\ files = Unset
    /\ changed = <<>>
    /\ request = Unset
    /\ response = Unset
    /\ tasks = <<>>

(***************************************************************************)
(* The merchant-identifier normalisers called on their own.                *)
(***************************************************************************)
MaxIdLen == 4

\* The atoms of the identifiers given to the normalisers.
IdAtoms == {"123", ".", "0", " "}

InitNorm ==
    /\ NoInstance
    /\ pc = "call"
    /\ fn_arg \in [fn : {"value", "series"}, x : SeqsUpTo(IdAtoms, MaxIdLen)]
    /\ fn_res = <<>>
    /\ fn_res2 = <<>>

\* self._normalize_merchant_id_value(x)
CallNormalizeValue ==
    /\ pc = "call"
    /\ fn_arg.fn = "value"
    /\ fn_res' = _normalize_merchant_id_value(fn_arg.x)
    /\ pc' = "returned"
    /\ UNCHANGED <<self, locals, fn_arg, fn_res2, sheets, peer, files,
                 changed, request, response, tasks>>

\* self._normalize_merchant_id_series(column), seen on one cell
CallNormalizeSeries ==
    /\ pc = "call"
    /\ fn_arg.fn = "series"
    /\ fn_res' = _normalize_merchant_id_series(fn_arg.x)
    /\ pc' = "returned"
    /\ UNCHANGED <<self, locals, fn_arg, fn_res2, sheets, peer, files,
                 changed, request, response, tasks>>

\* The same normaliser on what it returned.
CallNormalizeAgain ==
    /\ pc = "returned"
    /\ fn_res2' = IF fn_arg.fn = "value" THEN _normalize_merchant_id_value(fn_res)
                  ELSE _normalize_merchant_id_series(fn_res)
    /\ pc' = "again"
    /\ UNCHANGED <<self, locals, fn_arg, fn_res, sheets, peer, files,
                 changed, request, response, tasks>>

NextNorm ==
    \/ CallNormalizeValue
    \/ CallNormalizeSeries
    \/ CallNormalizeAgain

SpecNorm == InitNorm /\ [][NextNorm]_vars

(***************************************************************************)
(* _parse_mixed_date called on its own.                                    *)
(***************************************************************************)
MaxPad == 1

\* Two-character pieces of the tokens.
Chunks ==
    {<<"1", "9">>, <<"2", "0">>, <<"2", "4">>, <<"0", "1">>,
     <<"1", "5">>, <<"3", "1">>, <<"0", "2">>, <<"2", "9">>}

Centuries == {<<"1", "9">>, <<"2", "0">>}

\* Eight digits that read as a year first or as a year last, seven digits,
\* and eight characters that are not all digits.
TokenBodies ==
    {a \o b \o c \o e : a \in Centuries, b \in Chunks, c \in Chunks, e \in Chunks}
    \cup {a \o b \o c \o e : a \in Chunks, b \in Chunks, c \in Centuries, e \in Chunks}
    \cup {a \o b \o c \o <<"4">> : a \in Chunks, b \in Chunks, c \in Centuries}
    \cup {a \o b \o c \o <<"2", "x">> : a \in Chunks, b \in Chunks, c \in Centuries}

Pad(n) ==
    [i \in 1..n |-> " "]

Tokens ==
    {NA} \cup {Pad(l) \o body \o Pad(r) : l \in 0..MaxPad, r \in 0..MaxPad, body \in TokenBodies}

InitDate ==
    /\ NoInstance
    /\ pc = "call"
    /\ fn_arg \in Tokens
    /\ fn_res = <<>>
    /\ fn_res2 = <<>>

\* self._parse_mixed_date(x)
CallParseMixedDate ==
    /\ pc = "call"
    /\ fn_res' = _parse_mixed_date(fn_arg)
    /\ pc' = "returned"
    /\ UNCHANGED <<self, locals, fn_arg, fn_res2, sheets, peer, files,
                 changed, request, response, tasks>>

NextDate ==
    \/ CallParseMixedDate

SpecDate == InitDate /\ [][NextDate]_vars

(***************************************************************************)
(* Properties of the merchant-identifier normalisers.                      *)
(***************************************************************************)
\* C6: normalising a merchant identifier twice gives what normalising it once
\* gives, for the scalar and for the column normaliser, and "123.0" and "123"
\* normalise to the same text.
NormalizeIdempotent ==
    /\ pc = "again" => fn_res2 = fn_res
    /\ _normalize_merchant_id_value(<<"123", ".", "0">>) = _normalize_merchant_id_value(<<"123">>)
    /\ _normalize_merchant_id_series(<<"123", ".", "0">>) = _normalize_merchant_id_series(<<"123">>)

(***************************************************************************)
(* Properties of _parse_mixed_date.                                        *)
(***************************************************************************)
\* A day of the calendar.
IsCalendarDay(y, m, d) ==
    /\ m \in 1..12
    /\ d >= 1
    /\ d <= (IF m = 2 THEN (IF (y % 4 = 0 /\ y % 100 # 0) \/ y % 400 = 0 THEN 29 ELSE 28)
             ELSE IF m \in {4, 6, 9, 11} THEN 30 ELSE 31)

\* The number written by the digits tok[from..to].
RECURSIVE Number(_, _, _)
Number(tok, from, to) ==
    IF from > to THEN 0 ELSE 10 * Number(tok, from, to - 1) + DigitVal(tok[to])

\* The date the rule of the specification gives a token of exactly 8 digits.
DateOfEightDigits(tok) ==
    LET a == Number(tok, 1, 2)
        b == Number(tok, 3, 4)
        c == Number(tok, 5, 6)
        e == Number(tok, 7, 8)
    IN  IF a \in {19, 20}
        THEN IF IsCalendarDay(100 * a + b, c, e)
             THEN [y |-> 100 * a + b, m |-> c, d |-> e] ELSE NaT
        ELSE IF IsCalendarDay(100 * c + e, b, a)
             THEN [y |-> 100 * c + e, m |-> b, d |-> a]
        ELSE IF IsCalendarDay(100 * c + e, a, b)
             THEN [y |-> 100 * c + e, m |-> a, d |-> b]
        ELSE NaT

IsEightDigits(tok) ==
    /\ tok # NA
    /\ Len(tok) = 8
    /\ \A i \in 1..8 : tok[i] \in Digits

Trimmed(tok) ==
    IF tok = NA THEN NA
    ELSE LET first == CHOOSE i \in 1..(Len(tok) + 1) :
                          /\ \A j \in 1..(i - 1) : tok[j] = " "
                          /\ i = Len(tok) + 1 \/ tok[i] # " "
             last == CHOOSE i \in 0..Len(tok) :
                          /\ \A j \in (i + 1)..Len(tok) : tok[j] = " "
                          /\ i = 0 \/ tok[i] # " "
         IN  [i \in 1..(IF last < first THEN 0 ELSE last - first + 1) |-> tok[first + i - 1]]

Settled ==
    pc \in {"settled", "banked", "metrics", "done"}

\* The keys of the joined rows with a classification.
KeysOfClass(recon, class) ==
    {IF class = "right_only" THEN recon[i].r.Retrieval_Reference_Nr
     ELSE recon[i].l.reference_number : i \in {j \in 1..Len(recon) : recon[j]._merge = class}}

\* The key set of a column of a table.
KeySet(df, column) ==
    {df[i][column] : i \in 1..Len(df)}

\* The three classes of a join partition the keys of its two sides.
PartitionsKeys(recon, trans, sett) ==
    /\ \A i \in 1..Len(recon) : recon[i]._merge \in {"both", "left_only", "right_only"}
    /\ KeysOfClass(recon, "both") \cap KeysOfClass(recon, "left_only") = {}
    /\ KeysOfClass(recon, "both") \cap KeysOfClass(recon, "right_only") = {}
    /\ KeysOfClass(recon, "left_only") \cap KeysOfClass(recon, "right_only") = {}
    /\ KeysOfClass(recon, "both") \cup KeysOfClass(recon, "left_only")
           \cup KeysOfClass(recon, "right_only")
       = KeySet(trans, "reference_number") \cup KeySet(sett, "Retrieval_Reference_Nr")

\* C1: for each of the three channels, every row of the outer join of the
\* channel's transactions with its retained settlement rows has one of the
\* classifications both / left_only / right_only; the key sets of the three
\* classes are pairwise disjoint and their union is the union of the
\* transaction keys and the settlement keys.
JoinPartitionsKeys ==
    Settled =>
        /\ PartitionsKeys(locals.recon_df, self.nibss_unity, locals.nibss_unity_sett)
        /\ PartitionsKeys(locals.isw_recon_df, self.interswitch_unity, locals.unity_isw)
        /\ PartitionsKeys(locals.parallex_recon_df, self.nibss_parallex, locals.parallex_df)

\* Joins with rows of all three classes have been computed.
JoinPartitionsKeysWitness ==
    /\ pc = "settled"
    /\ KeysOfClass(locals.recon_df, "both") # {}
    /\ KeysOfClass(locals.recon_df, "right_only") # {}
    /\ KeysOfClass(locals.isw_recon_df, "left_only") # {}

\* The rows of a prepared settlement report a channel retains, as a set.
RetainedRows(report, run_date, merchants) ==
    {row \in Rows(report) : row.Local_Date_Time = run_date /\ row.Merchant_ID \in merchants}

\* The columns of a transaction an unsettled claim carries.
ClaimOf(row) ==
    [date_created |-> row.date_created, reference_number |-> row.reference_number,
     amount |-> row.amount, merchant_id |-> row.merchant_id]

\* The claims are the transactions with no retained settlement row of their
\* key, the charge-backs the retained settlement rows with no transaction of
\* their key.
ExactlyUnmatched(claims, charge_backs, trans, retained) ==
    LET unmatched == Filter(trans, LAMBDA row :
                         \A r \in retained : r.Retrieval_Reference_Nr # row.reference_number)
    IN  /\ SameRows(claims, [i \in 1..Len(unmatched) |-> ClaimOf(unmatched[i])])
        /\ Rows(charge_backs) =
               {r \in retained : \A i \in 1..Len(trans) :
                                     trans[i].reference_number # r.Retrieval_Reference_Nr}
        /\ \A r \in Rows(charge_backs) : Count(charge_backs, r) = 1

\* The one transaction and the two settlement rows of the example.
ExampleCard ==
    <<CardRow(StrKey("A1"), Day1Cell, NibssCell, <<"0">>, StrKey("A1"), 1000)>>

ExampleReport ==
    <<SettlementRow(Day1Cell, NibssCell, StrKey("A1"), 1000),
      SettlementRow(Day1Cell, NibssCell, StrKey("B2"), 500)>>

IsExample ==
    /\ self.raw_card_df = ExampleCard
    /\ self.raw_nibss_unity_settlement_df = ExampleReport

\* The rows of a join with a classification.
OfClass(recon, class) ==
    Filter(recon, LAMBDA x : x._merge = class)

AllMerchants == {IswCell, NibssCell, ParallexCell, <<"OTHER">>}

\* C2: for every channel the unsettled-claim table holds exactly the channel's
\* transactions whose reference number is that of no retained settlement row,
\* and the charge-back table exactly the retained settlement rows whose
\* reference number is that of no transaction of the channel; a NIBSS
\* transaction (1000, A1) against settlement rows (A1, 1000) and (B2, 500)
\* gives 1 matched row, no claim and 1 charge-back of amount 500.
ClaimsAndChargeBacksExact ==
    Settled =>
        /\ ExactlyUnmatched(self.results.unsettled_claim, self.results.charge_back,
               self.nibss_unity,
               RetainedRows(self.nibss_unity_settlement_df, self.run_date, {NibssCell}))
        /\ ExactlyUnmatched(self.results.isw_unsettled_claim, self.results.isw_charge_back,
               self.interswitch_unity,
               RetainedRows(self.unity_settlement, self.run_date, AllMerchants))
        /\ ExactlyUnmatched(self.results.parallex_unsettled_claim,
               self.results.parallex_charge_back,
               self.nibss_parallex,
               RetainedRows(self.parallex_nibss, self.run_date, {ParallexCell}))
        /\ IsExample =>
               /\ Len(OfClass(locals.recon_df, "both")) = 1
               /\ self.results.unsettled_claim = <<>>
               /\ Len(self.results.charge_back) = 1
               /\ self.results.charge_back[1].Tran_Amount_Req = 500

\* The example has been reconciled.
ClaimsAndChargeBacksWitness ==
    /\ pc = "settled"
    /\ IsExample
    /\ Len(self.results.charge_back) = 1

(***************************************************************************)
(* Properties of the metrics.                                              *)
(***************************************************************************)
\* The sum of a figure over the three channels.
OverChannels(metrics, figure) ==
    metrics.channels.NIBSS[figure] + metrics.channels.INTERSWITCH[figure]
        + metrics.channels.PARALLEX[figure]

\* C3: in the metrics snapshot total_revenue, total_settlement,
\* total_settlement_charge_back and total_settlement_unsettled_claims are each
\* the sum of the figure of the three channels NIBSS, INTERSWITCH and PARALLEX.
TotalsSumChannels ==
    pc \in {"metrics", "done"} =>
        /\ self.metrics.total_revenue = OverChannels(self.metrics, "revenue")
        /\ self.metrics.total_settlement = OverChannels(self.metrics, "settlement")
        /\ self.metrics.total_settlement_charge_back = OverChannels(self.metrics, "charge_back")
        /\ self.metrics.total_settlement_unsettled_claims
               = OverChannels(self.metrics, "unsettled_claim")

\* A snapshot with revenue on the Parallex channel and on another one.
TotalsSumChannelsWitness ==
    /\ pc = "metrics"
    /\ self.metrics.channels.PARALLEX.revenue # 0
    /\ self.metrics.channels.NIBSS.revenue # 0
    /\ self.metrics.total_settlement_charge_back # 0

(***************************************************************************)
(* Properties of the whole run.                                            *)
(***************************************************************************)
\* The tables the instance was built from.
SheetsOf(s) ==
    [card_df |-> s.raw_card_df,
     nibss_unity_settlement_df |-> s.raw_nibss_unity_settlement_df,
     unity_settlement |-> s.raw_unity_settlement,
     parallex_nibss |-> s.raw_parallex_nibss,
     collection_account_unity |-> s.raw_collection_account_unity,
     collection_account_parallex |-> s.raw_collection_account_parallex]

\* The tables with the rows of df in another order.
Reordered(df) ==
    {q \in [1..Len(df) -> Rows(df)] : SameRows(q, df)}

JoinTables == {"recon_df", "isw_recon_df", "parallex_recon_df", "not_isw_b_recon"}

PartitionTables ==
    {"unsettled_claim", "charge_back", "isw_unsettled_claim", "isw_charge_back",
     "parallex_unsettled_claim", "parallex_charge_back",
     "isw_b_unsettled_claim", "isw_b_charge_back"}

\* Two runs end alike: both raise, or both give the same metrics and the
\* same rows in every class of every join.
SameOutcome(a, b) ==
    /\ a.raised = b.raised
    /\ ~a.raised =>
           /\ a.self.metrics = b.self.metrics
           /\ \A n \in JoinTables : SameRows(a.locals[n], b.locals[n])
           /\ \A n \in PartitionTables : SameRows(a.self.results[n], b.self.results[n])

NoRowsOfRunDate(report) ==
    \A i \in 1..Len(report) : ToDatetime(report[i].Local_Date_Time) # self.run_date

BankOutputs ==
    {"isw_b_unsettled_claim", "isw_b_charge_back", "nerf_nibss_b_credit",
     "being_nibss_summary", "cb", "tof_df", "ds"}

\* C5: when a channel's settlement report has no rows of the run date the
\* run does not raise and the channel's settlement aggregate is zero; when the
\* channel is Interswitch every bank-reconciliation output is empty.
EmptyReportCompletes ==
    /\ (\/ NoRowsOfRunDate(self.raw_nibss_unity_settlement_df)
        \/ NoRowsOfRunDate(self.raw_unity_settlement)
        \/ NoRowsOfRunDate(self.raw_parallex_nibss)) => pc # "failed"
    /\ pc \in {"metrics", "done"} =>
           /\ NoRowsOfRunDate(self.raw_nibss_unity_settlement_df)
                  => self.metrics.channels.NIBSS.settlement = 0
           /\ NoRowsOfRunDate(self.raw_unity_settlement)
                  => self.metrics.channels.INTERSWITCH.settlement = 0
           /\ NoRowsOfRunDate(self.raw_parallex_nibss)
                  => self.metrics.channels.PARALLEX.settlement = 0
           /\ NoRowsOfRunDate(self.raw_unity_settlement)
                  => \A n \in BankOutputs : self.results[n] = <<>>

(***************************************************************************)
(* Properties of the channel attribution.                                  *)
(***************************************************************************)
\* The card stage has run.
CardsProcessed ==
    pc \in {"cards", "settled", "banked", "metrics", "done"}

\* The channel subsets by channel.
SubsetOf(channel) ==
    CASE channel = "INTERSWITCH" -> self.interswitch_unity
      [] channel = "NIBSS" -> self.nibss_unity
      [] channel = "PARALLEX" -> self.nibss_parallex

\* The configured merchant identifier of a channel.
ConfiguredOf(channel) ==
    CASE channel = "INTERSWITCH" -> settings_merchant_id_interswitch_unity
      [] channel = "NIBSS" -> settings_merchant_id_nibss_unity
      [] channel = "PARALLEX" -> settings_merchant_id_nibss_parallex

\* The channels whose subset holds the transaction with this id.
ChannelsOf(id) ==
    {c \in Channels : \E j \in 1..Len(SubsetOf(c)) : SubsetOf(c)[j].id = id}

\* The row of the sheet is of the run date, successful and of the channel.
Qualifies(row, channel) ==
    /\ ToDatetime(row.date_created) = self.run_date
    /\ ToNumeric(row.host_resp_code) = 0
    /\ _normalize_merchant_id_series(_safe_str_series(row.merchant_id))
           = _normalize_merchant_id_value(ConfiguredOf(channel))

\* C10: a transaction row is in the subset of at most one channel, and is in
\* a channel's subset only if its creation date is the run date, its response
\* code is 0 and its normalised merchant identifier is the channel's
\* normalised configured identifier.
AtMostOneChannel ==
    CardsProcessed =>
        \A i \in 1..Len(self.raw_card_df) :
            /\ Cardinality(ChannelsOf(self.raw_card_df[i].id)) <= 1
            /\ \A c \in ChannelsOf(self.raw_card_df[i].id) : Qualifies(self.raw_card_df[i], c)

\* A padded identifier has been attributed to its channel, and a row of a
\* configured merchant with another response code to none.
AtMostOneChannelWitness ==
    /\ pc = "cards"
    /\ Len(self.raw_card_df) = 2
    /\ ChannelsOf(1) = {"NIBSS"}
    /\ self.raw_card_df[1].merchant_id # NibssCell
    /\ ChannelsOf(2) = {}
    /\ self.raw_card_df[2].merchant_id = IswCell
    /\ self.raw_card_df[2].date_created = Day1Cell

(***************************************************************************)
(* Properties of the bank-statement categories.                            *)
(***************************************************************************)
\* The bank stage has run to its end.
Banked ==
    pc \in {"banked", "metrics", "done"}

\* The first atom of a narration that is no blank ("" if there is none).
FirstWord(narration) ==
    IF \A i \in 1..Len(narration) : narration[i] = " " THEN ""
    ELSE narration[CHOOSE i \in 1..Len(narration) :
                       /\ narration[i] # " "
                       /\ \A j \in 1..(i - 1) : narration[j] = " "]

\* C8: the terminal-owner-fee table holds no ISW-collection line (tag in
\* either case), no BEING line and no RVSL line, whatever the value dates of
\* the statement; each of its lines ends with TRANSACTION and has the target
\* date as its value date.
TerminalOwnerFeesClean ==
    Banked =>
        \A i \in 1..Len(self.results.tof_df) :
            LET narration == self.results.tof_df[i].Transaction_Narration
            IN  /\ narration # <<>>
                /\ narration[1] \notin {"2LBP", "2lbp"}
                /\ FirstWord(narration) # "BEING"
                /\ narration[1] # "RVSL"
                /\ narration[Len(narration)] = "TRANSACTION"
                /\ self.results.tof_df[i].Value_Date = locals.unique_date

\* A fee line has been kept from a statement that also holds an ISW line
\* ending with TRANSACTION.
TerminalOwnerFeesCleanWitness ==
    /\ pc = "banked"
    /\ Len(self.results.tof_df) = 1
    /\ \E i \in 1..Len(self.collection_account_unity) :
           /\ IsIswCollection(self.collection_account_unity[i])
           /\ EndsWithTransaction(self.collection_account_unity[i])

\* The categories a bank line is selected for.
CategoriesOf(row) ==
    {c \in {"ISW", "NEFT", "BEING", "RVSL", "TOF"} :
        CASE c = "ISW" -> IsIswCollection(row)
          [] c = "NEFT" -> IsNeft(row)
          [] c = "BEING" -> IsBeing(row)
          [] c = "RVSL" -> IsReversal(row)
          [] c = "TOF" -> \E i \in 1..Len(self.results.tof_df) :
                              self.results.tof_df[i].Transaction_Narration
                                  = row.Transaction_Narration}

\* C9: every line of the bank statement is selected for at most one of the
\* categories ISW collection, NEFT, BEING, reversal and terminal-owner fee.
AtMostOneCategory ==
    Banked /\ "unique_date" \in DOMAIN locals =>
        \A i \in 1..Len(self.collection_account_unity) :
            Cardinality(CategoriesOf(self.collection_account_unity[i])) <= 1

(***************************************************************************)
(* The run on card rows whose commission carries a fraction of a cent.     *)
(***************************************************************************)
MaxFeeRows == 2

\* The fraction of a cent a commission carries, in 1/10000 units.
FeeFractions == {0, 40}

\* Successful transactions of the run date with such a commission.
FeeCardRows ==
    {[CardRow(1, Day1Cell, MerchantCell(c), <<"0">>, IntKey(1), amt)
          EXCEPT !.liberty_commission = amt * 250 + fraction] :
        c \in Channels, amt \in {1000, 500}, fraction \in FeeFractions}

InitFee ==
    \E card \in SeqsUpTo(FeeCardRows, MaxFeeRows) :
        InitRun(SheetsData(card, <<>>, <<>>, <<>>,
                           <<BankRow(IswNarration("2LBP", RrnText(1), <<"POS">>), Day1Cell)>>),
                Day1)

SpecFee == InitFee /\ [][Next]_vars

(***************************************************************************)
(* Properties of the channel aggregates.                                   *)
(***************************************************************************)
\* The aggregate of a channel by channel.
AggregateOf(channel) ==
    CASE channel = "INTERSWITCH" -> self.results.interswitch_unity_df[1]
      [] channel = "NIBSS" -> self.results.nibss_unity_df[1]
      [] channel = "PARALLEX" -> self.results.nibss_parallex_df[1]

\* The sum over a channel's rows of fee - cost_of_acquisition - agent_commission,
\* no row rounded.
UnroundedGross(channel) ==
    Sum(SubsetOf(channel),
        LAMBDA row : row.fee - row.cost_of_acquisition - row.agent_commission)

\* C11: the Gross of each channel's aggregate is the unrounded sum over the
\* channel's rows of fee - cost_of_acquisition - agent_commission, rounded to
\* 2 decimals once; no row is rounded before the sum.
GrossRoundedOnce ==
    CardsProcessed =>
        \A c \in Channels : AggregateOf(c).Gross = Round2(UnroundedGross(c))

(***************************************************************************)
(* The run on settlement reports of any date, merchant and key type.       *)
(***************************************************************************)
MaxReportCards == 2

MaxReportRows == 2

\* The reference number 123 as a number and as the text "123".
Number123 == IntKey(123)

Text123 == StrKey("123")

\* Successful transactions of the run date: Interswitch ones whose reference
\* number the sheet holds as a number or as text, and a NIBSS one.
ReportCardRows ==
    {CardRow(key, Day1Cell, IswCell, <<"0">>, key, 1000) : key \in {Number123, Text123}}
        \cup {CardRow(StrKey("A1"), Day1Cell, NibssCell, <<"0">>, StrKey("A1"), 1000)}

\* The reference numbers of the rows of a channel's report.
AnyReportKeysOf(channel) ==
    IF channel = "INTERSWITCH" THEN {Number123, Text123} ELSE {StrKey("A1")}

\* Rows of the three reports, each of the run date and the channel's merchant,
\* of the day after, or of another merchant.
AnyReportRows ==
    UNION {{ReportRow(c, key, variant) :
               key \in AnyReportKeysOf(c),
               variant \in IF c = "PARALLEX" THEN {"ok", "foreign"}
                           ELSE {"ok", "late", "foreign"}} : c \in Channels}

\* The day after the run date as an ISW narration writes it.
NextDayMonthYear == <<"1", "6", " ", "0", "1", " ", "2", "0", "2", "4">>

\* The reference number 123 as the nine digits a narration carries.
Rrn123 == <<"0", "0", "0", "0", "0", "0", "1", "2", "3">>

\* A well-formed ISW-collection narration with this reference number and date.
IswNarrationOn(rrn, dayMonthYear) ==
    <<"2LBP", "T1">> \o Sep \o <<"S1">> \o Sep \o <<"P1">> \o Sep \o rrn \o Sep
        \o dayMonthYear \o <<"-", "POS">>

\* Bank statements of well-formed ISW lines: reference number 123 dated the
\* run date, or the day after, or another reference number on both days.
ReportBankStatements ==
    {<<BankRow(IswNarrationOn(Rrn123, DayMonthYear), Day1Cell)>>,
     <<BankRow(IswNarrationOn(Rrn123, NextDayMonthYear), Day1Cell)>>,
     <<BankRow(IswNarrationOn(RrnText(2), NextDayMonthYear), Day1Cell),
       BankRow(IswNarrationOn(RrnText(2), DayMonthYear), Day1Cell)>>}

InitReport ==
    \E card \in SeqsUpTo(ReportCardRows, MaxReportCards),
       pool \in SeqsUpTo(AnyReportRows, MaxReportRows),
       bank \in ReportBankStatements :
        InitRun(SheetsData(card, ReportOf(pool, "NIBSS"), ReportOf(pool, "INTERSWITCH"),
                           ReportOf(pool, "PARALLEX"), bank), Day1)

SpecReport == InitReport /\ [][Next]_vars

(***************************************************************************)
(* Properties of the settlement filters.                                   *)
(***************************************************************************)
\* The settlement rows a channel's aggregate and join are computed from.
RetainedOf(channel) ==
    CASE channel = "INTERSWITCH" -> locals.unity_isw
      [] channel = "NIBSS" -> locals.nibss_unity_sett
      [] channel = "PARALLEX" -> locals.parallex_df

\* C12: for each of the three channels, a settlement row enters the channel's
\* settlement aggregate and reconciliation join only if its local date is the
\* run date and its merchant identifier is the channel's configured one.
RetainedAreOfRunDateAndMerchant ==
    Settled =>
        \A c \in Channels : \A i \in 1..Len(RetainedOf(c)) :
            /\ RetainedOf(c)[i].Local_Date_Time = self.run_date
            /\ RetainedOf(c)[i].Merchant_ID = _normalize_merchant_id_value(ConfiguredOf(c))

(***************************************************************************)
(* Properties of the join keys.                                            *)
(***************************************************************************)
\* The number a reference number stands for: the number itself, int() of the
\* text "123", and none (-1) for a text that writes no number.
ReferenceValue(key) ==
    IF key.t = "int" THEN key.v
    ELSE IF key.s = "123" THEN 123
    ELSE -1

\* Two reference numbers are equal once normalised.
SameReference(a, b) ==
    ReferenceValue(a) # -1 /\ ReferenceValue(a) = ReferenceValue(b)

\* The join table of the locals holds a matched row of these two keys.
MatchedIn(table, leftKey, rightKey, LeftKeyOf(_), RightKeyOf(_)) ==
    /\ table \in DOMAIN locals
    /\ \E i \in 1..Len(locals[table]) :
           /\ locals[table][i]._merge = "both"
           /\ LeftKeyOf(locals[table][i]) = leftKey
           /\ RightKeyOf(locals[table][i]) = rightKey

\* The settlement stage has run, to its end or to an error.
SettlementEnded ==
    pc \in {"settled", "banked", "metrics", "done", "failed"}

\* The bank stage has run, to its end or to an error in its join.
BankJoinEnded ==
    /\ pc \in {"banked", "metrics", "done", "failed"}
    /\ "isw_recon" \in DOMAIN self
    /\ "isw_collection" \in DOMAIN locals
    /\ \A i \in 1..Len(locals.isw_collection) : "rrn" \in DOMAIN locals.isw_collection[i]

\* C13: join keys are normalised before they are compared: an Interswitch
\* transaction and a retained settlement row, or a settlement-matched
\* transaction and an ISW-collection bank line, whose reference numbers are the
\* same number, one held as the text "123" and one as the number 123, are
\* joined as a matched row, and the join raises no error.
KeysNormalizedBeforeJoin ==
    /\ SettlementEnded =>
           \A i \in 1..Len(self.interswitch_unity) :
               \A r \in Rows(RetainedInterswitch(self.unity_settlement, self.run_date)) :
                   SameReference(self.interswitch_unity[i].reference_number,
                                 r.Retrieval_Reference_Nr)
                   => MatchedIn("isw_recon_df",
                                self.interswitch_unity[i].reference_number,
                                r.Retrieval_Reference_Nr,
                                LAMBDA x : x.l.reference_number,
                                LAMBDA x : x.r.Retrieval_Reference_Nr)
    /\ BankJoinEnded =>
           \A i \in 1..Len(self.isw_recon) : \A j \in 1..Len(locals.isw_collection) :
               SameReference(self.isw_recon[i].l.reference_number,
                             locals.isw_collection[j].rrn)
               => MatchedIn("not_isw_b_recon",
                            self.isw_recon[i].l.reference_number,
                            locals.isw_collection[j].rrn,
                            LAMBDA x : x.l.l.reference_number,
                            LAMBDA x : x.r.rrn)

(***************************************************************************)
(* Properties of the output datasets.                                      *)
(***************************************************************************)
\* C14: every table handed back to the caller, the datasets returned by
\* run_full_reconciliation (self.results) and the tables of
\* get_output_datasets, empty tables included, has run_date as its first
\* column.
EveryTableStartsWithRunDate ==
    pc = "done" =>
        /\ \A n \in DOMAIN self.output_datasets :
               self.output_datasets[n].first_columns = <<"run_date">>
        /\ \A n \in DOMAIN self.results : \A i \in 1..Len(self.results[n]) :
               "run_date" \in DOMAIN self.results[n][i]

\* The settlement aggregate of a channel by channel.
SettlementAggregateOf(channel) ==
    CASE channel = "INTERSWITCH" -> self.results.unity_isw_agg
      [] channel = "NIBSS" -> self.results.nibss_unity_settlement
      [] channel = "PARALLEX" -> self.results.parallex_nibss_df

\* The merged view of a channel: its aggregate beside its settlement aggregate.
MergedViewOf(channel) ==
    ConcatColumns(<<AggregateOf(channel)>>, SettlementAggregateOf(channel), TRUE)

\* C15: the output dataset collection has 12 tables, and for each of the
\* three channels one of them, a table of its own, is the channel's merged
\* settlement and aggregate view; no merged view is computed and left out.
MergedViewOfEveryChannel ==
    pc = "done" =>
        /\ Cardinality(DOMAIN self.output_datasets) = 12
        /\ \E view \in [Channels -> DOMAIN self.output_datasets] :
               /\ \A c, d \in Channels : view[c] = view[d] => c = d
               /\ \A c \in Channels :
                      self.output_datasets[view[c]].rows
                          = InsertRunDate(MergedViewOf(c), self.run_date)

(***************************************************************************)
(* Properties of the ISW-collection parse.                                 *)
(***************************************************************************)
\* The narration of an ISW-collection line splits into the six fixed fields
\* and its reference-number field parses to an integer.
WellFormedIswLine(row) ==
    /\ Len(IswFields(row)) = IswColumns
    /\ IsIntText(IswFields(row)[4])

\* C16: an ISW-collection line whose narration does not split into the six
\* fixed fields, or whose reference-number field is no integer, is never
\* skipped or defaulted: the run fails, and a failed run has produced no
\* metrics snapshot.
MalformedIswLineFailsRun ==
    /\ Banked =>
           \A i \in 1..Len(self.collection_account_unity) :
               IsIswCollection(self.collection_account_unity[i])
                   => WellFormedIswLine(self.collection_account_unity[i])
    /\ pc = "failed" => self.metrics = Unset

(***************************************************************************)
(* Properties of the bank charge-backs.                                    *)
(***************************************************************************)
\* The run took the reference date: it is no degenerate run.
NonDegenerate ==
    Banked /\ "unique_date" \in DOMAIN locals

\* C17: the bank charge-back table holds only ISW-collection lines that the
\* bank join left bank-only and whose narration date is the reference date,
\* the date of the first Interswitch settlement row retained for the run; in
\* every run that is not degenerate that reference date is the run date.
BankChargeBacksOnReferenceDate ==
    /\ NonDegenerate =>
           /\ locals.unique_date = self.unity_isw[1].Local_Date_Time
           /\ locals.unique_date = self.run_date
    /\ Banked =>
           \A i \in 1..Len(self.results.isw_b_charge_back) :
               LET line == self.results.isw_b_charge_back[i]
               IN  /\ IsIswCollection(line)
                   /\ \A j \in 1..Len(self.isw_recon) :
                          self.isw_recon[j].l.reference_number # line.rrn
                   /\ ToDatetimeDayMonthYear(Field(line, 5)) = self.run_date
                   /\ NonDegenerate

\* A bank-only line of the run date has been reported and a bank-only line
\* of the day after has not, in a run whose Interswitch report starts with a
\* row of the day after.
BankChargeBacksWitness ==
    /\ pc = "banked"
    /\ Len(self.results.isw_b_charge_back) = 1
    /\ Len(OfClass(locals.not_isw_b_recon, "right_only")) = 2
    /\ Len(self.unity_settlement) = 2
    /\ self.unity_settlement[1].Local_Date_Time = Day2

(***************************************************************************)
(* save_metrics_to_file and the requests that run the reconciliation.      *)
(***************************************************************************)
DigitOf == <<"0", "1", "2", "3", "4", "5", "6", "7", "8", "9">>

\* n written with two digits
TwoDigits(n) ==
    <<DigitOf[((n \div 10) % 10) + 1], DigitOf[(n % 10) + 1]>>

\* date.isoformat(): YYYY-MM-DD
isoformat(d) ==
    TwoDigits(d.y \div 100) \o TwoDigits(d.y % 100) \o <<"-">> \o TwoDigits(d.m)
        \o <<"-">> \o TwoDigits(d.d)

\* os.path.join(settings.output_dir, f"metrics_{run_date_str}.json")
metrics_path(run_date) ==
    <<"outputs/metrics", "/", "metrics_">> \o isoformat(run_date) \o <<".json">>

\* The members of a JSON object in the order of the dictionary's keys.
JsonChannel(name, c) ==
    <<name, <<<<"revenue", c.revenue>>, <<"settlement", c.settlement>>,
              <<"charge_back", c.charge_back>>, <<"unsettled_claim", c.unsettled_claim>>>>>>

\* json.dump(self.metrics, f, indent=2, default=default_serializer)
JsonDump(metrics) ==
    <<<<"run_date", isoformat(metrics.run_date)>>,
      <<"total_revenue", metrics.total_revenue>>,
      <<"total_settlement", metrics.total_settlement>>,
      <<"total_settlement_charge_back", metrics.total_settlement_charge_back>>,
      <<"total_settlement_unsettled_claims", metrics.total_settlement_unsettled_claims>>,
      <<"total_bank_isw_unsettled_claims", metrics.total_bank_isw_unsettled_claims>>,
      <<"total_bank_isw_charge_back", metrics.total_bank_isw_charge_back>>,
      <<"channels",
        <<JsonChannel("NIBSS", metrics.channels.NIBSS),
          JsonChannel("INTERSWITCH", metrics.channels.INTERSWITCH),
          JsonChannel("PARALLEX", metrics.channels.PARALLEX),
          <<"ISW_Bank", <<<<"charge_back", metrics.channels.ISW_Bank.charge_back>>,
                          <<"unsettled_claim", metrics.channels.ISW_Bank.unsettled_claim>>>>>>>>>>>>

\* open(path, "w") and the write: the file at path holds content, whatever it held.
WriteFile(fs, path, content) ==
    [p \in DOMAIN fs \cup {path} |-> IF p = path THEN content ELSE fs[p]]

\* The order of last change of the files once the file at path is written.
Touch(order, path) ==
    SelectSeq(order, LAMBDA p : p # path) \o <<path>>

\* recon_service.save_metrics_to_file(), after run_full_reconciliation returned
SaveMetricsToFile ==
    /\ pc = "done"
    /\ files' = WriteFile(files, metrics_path(self.run_date), JsonDump(self.metrics))
    /\ changed' = Touch(changed, metrics_path(self.run_date))
    /\ pc' = "saved"
    /\ UNCHANGED <<self, locals, fn_arg, fn_res, fn_res2, sheets, peer,
                 request, response, tasks>>

\* What load_all_sheets may return to a request: up to one successful card
\* transaction of the first day, no settlement report, a bank statement with
\* a well-formed ISW line or with one that lacks a field.
LoadedSheets ==
    {SheetsData(card, <<>>, <<>>, <<>>, <<BankRow(narration, Day1Cell)>>) :
        card \in SeqsUpTo(RunCardRows, 1),
        narration \in {IswNarration("2LBP", RrnText(1), <<"POS">>),
                       IswNarrationShort(RrnText(1))}}

\* The run dates of the requests.
RequestDates == {Day1, Day2}

\* The next request to run_reconciliation, once the one before ended: the
\* sheets are loaded again and a new instance is built from them.
RunReconciliation ==
    /\ pc \in {"saved", "failed"}
    /\ \E sheets_data \in LoadedSheets, run_date \in RequestDates :
           /\ sheets' = sheets_data
           /\ self' = Construct(sheets_data, run_date)
    /\ locals' = Unset
    /\ pc' = "constructed"
    /\ UNCHANGED <<fn_arg, fn_res, fn_res2, peer, files,
                 changed, request, response, tasks>>

NextFiles ==
    \/ Next
    \/ SaveMetricsToFile
    \/ RunReconciliation

InitFiles ==
    \E sheets_data \in LoadedSheets, run_date \in RequestDates :
        InitRun(sheets_data, run_date)

SpecFiles == InitFiles /\ [][NextFiles]_vars

\* C18: once save_metrics_to_file has written the metrics file of a run date,
\* no later operation changes the content of that file, a second run for the
\* same date included.
MetricsFileWrittenOnce ==
    [][\A p \in DOMAIN files : p \in DOMAIN files' /\ files'[p] = files[p]]_vars

(***************************************************************************)
(* get_debug_info                                                          *)
(***************************************************************************)
\* A date as a number that orders the dates.
DateOrdinal(d) == d.y * 10000 + d.m * 100 + d.d

\* pd.to_datetime(df[column], errors="coerce") with the nulls dropped
ParsedDates(df, column) ==
    LET dates == [i \in 1..Len(df) |-> ToDatetime(df[i][column])]
    IN  {dates[i] : i \in 1..Len(dates)} \ {NaT}

\* summarize_dates(df, column): a table of no rows has no columns.
summarize_dates(df, column) ==
    LET series == ParsedDates(df, column)
    IN  IF df = <<>> \/ series = {}
        THEN [column |-> column, rows |-> Len(df), min |-> "None", max |-> "None"]
        ELSE [column |-> column, rows |-> Len(df),
              min |-> isoformat(CHOOSE d \in series :
                          \A e \in series : DateOrdinal(d) <= DateOrdinal(e)),
              max |-> isoformat(CHOOSE d \in series :
                          \A e \in series : DateOrdinal(d) >= DateOrdinal(e))]

\* count_for_date(df, column)
count_for_date(df, column, run_date) ==
    Cardinality({i \in 1..Len(df) : ToDatetime(df[i][column]) = run_date})

\* summarize_non_string(df, column): the cells that are neither text nor null.
summarize_non_string(df, column) ==
    [column |-> column, rows |-> Len(df),
     non_string_count |->
        Cardinality({i \in 1..Len(df) : df[i][column] \notin Seq(STRING)})]

\* getattr(self, name, pd.DataFrame())
getattr(s, name) ==
    IF name \in DOMAIN s THEN s[name] ELSE <<>>

\* The attributes get_debug_info reads without a default.
DebugAttributes ==
    {"run_date", "raw_card_df", "raw_nibss_unity_settlement_df", "raw_unity_settlement",
     "raw_parallex_nibss", "raw_collection_account_unity",
     "raw_collection_account_parallex", "card_df", "merchant_id_interswitch_unity",
     "merchant_id_nibss_unity", "merchant_id_nibss_parallex"}

\* get_debug_info: the report, or the AttributeError raised by the read of an
\* attribute the instance does not have.
get_debug_info(s) ==
    IF ~(DebugAttributes \subseteq DOMAIN s)
    THEN [raised |-> TRUE, debug |-> "AttributeError"]
    ELSE [raised |-> FALSE,
          debug |->
            [run_date |-> isoformat(s.run_date),
             rows |->
                [card_df |-> Len(s.raw_card_df),
                 nibss_unity_settlement_df |-> Len(s.raw_nibss_unity_settlement_df),
                 unity_settlement |-> Len(s.raw_unity_settlement),
                 parallex_nibss |-> Len(s.raw_parallex_nibss),
                 collection_account_unity |-> Len(s.raw_collection_account_unity),
                 collection_account_parallex |-> Len(s.raw_collection_account_parallex)],
             dates |->
                [card_df |-> summarize_dates(s.raw_card_df, "date_created"),
                 nibss_unity_settlement_df |->
                     summarize_dates(s.raw_nibss_unity_settlement_df, "Local_Date_Time"),
                 unity_settlement |->
                     summarize_dates(s.raw_unity_settlement, "Local_Date_Time"),
                 parallex_nibss |-> summarize_dates(s.raw_parallex_nibss, "Local_Date_Time")],
             run_date_counts |->
                [card_df |-> count_for_date(s.raw_card_df, "date_created", s.run_date),
                 nibss_unity_settlement_df |->
                     count_for_date(s.raw_nibss_unity_settlement_df, "Local_Date_Time",
                                    s.run_date),
                 unity_settlement |->
                     count_for_date(s.raw_unity_settlement, "Local_Date_Time", s.run_date),
                 parallex_nibss |->
                     count_for_date(s.raw_parallex_nibss, "Local_Date_Time", s.run_date)],
             card_filters |->
                [card_df_filtered |-> Len(s.card_df),
                 cashout_trans |-> Len(getattr(s, "cashout_trans")),
                 interswitch_unity |-> Len(getattr(s, "interswitch_unity")),
                 nibss_unity |-> Len(getattr(s, "nibss_unity")),
                 nibss_parallex |-> Len(getattr(s, "nibss_parallex"))],
             merchant_ids |->
                [interswitch_unity |-> s.merchant_id_interswitch_unity,
                 nibss_unity |-> s.merchant_id_nibss_unity,
                 nibss_parallex |-> s.merchant_id_nibss_parallex],
             data_quality |->
                [collection_account_unity |->
                     summarize_non_string(s.raw_collection_account_unity,
                                          "Transaction_Narration"),
                 collection_account_parallex |->
                     summarize_non_string(s.raw_collection_account_parallex,
                                          "Transaction_Narration")]]]

\* recon_service.get_debug_info(), at any position of the run
CallGetDebugInfo ==
    /\ fn_res' = get_debug_info(self)
    /\ UNCHANGED <<self, locals, pc, fn_arg, fn_res2, sheets, peer, files,
                 changed, request, response, tasks>>

NextDebug ==
    \/ Next
    \/ CallGetDebugInfo

\* Up to one card transaction and one Interswitch settlement row, of the run
\* date or of the day after.
InitDebug ==
    \E card \in SeqsUpTo(RunCardRows, 1),
       pool \in SeqsUpTo({r \in ReportRows : r.report = "INTERSWITCH"}, 1),
       run_date \in RequestDates :
        InitRun(SheetsData(card, <<>>, ReportOf(pool, "INTERSWITCH"), <<>>,
                           <<BankRow(IswNarration("2LBP", RrnText(1), <<"POS">>),
                                     Day1Cell)>>),
                run_date)

SpecDebug == InitDebug /\ [][NextDebug]_vars

\* C20: get_debug_info can be called at any point after construction, before
\* or after run_full_reconciliation: it returns the report without raising,
\* runs no stage and leaves metrics, results and the working tables unchanged.
DebugInfoAtAnyPoint ==
    [][CallGetDebugInfo => (~fn_res'.raised /\ self' = self /\ pc' = pc)]_vars

(***************************************************************************)
(* Two instances built from the same sheets_data, their stages interleaved. *)
(***************************************************************************)
\* An instance with the locals and the position of its run.
Running(s, l, position) ==
    [self |-> s, locals |-> l, pc |-> position]

\* The stage of run_full_reconciliation an instance at a position runs next:
\* the instance after it, and sheets_data after it.
Advance(inst, sheets_data) ==
    Local(Bound(inst.self, sheets_data),
      LAMBDA bound :
        CASE inst.pc = "constructed" ->
               [instance |-> Running(_prepare_data(bound), inst.locals, "prepared"),
                sheets |-> WrittenThrough(sheets_data, bound.shared, ConvertedTables(bound))]
          [] inst.pc = "prepared" ->
               [instance |-> Running(_process_card_transactions(bound), inst.locals, "cards"),
                sheets |-> sheets_data]
          [] inst.pc = "cards" ->
               Local(_process_settlements(bound),
                 LAMBDA out :
                   [instance |-> Running(out.self, out.locals,
                                         IF out.raised THEN "failed" ELSE "settled"),
                    sheets |-> sheets_data])
          [] inst.pc = "settled" ->
               Local(_process_bank_statements(bound),
                 LAMBDA out :
                   [instance |-> Running(out.self, out.locals @@ inst.locals,
                                         IF out.raised THEN "failed" ELSE "banked"),
                    sheets |-> sheets_data])
          [] inst.pc = "banked" ->
               [instance |-> Running(_generate_metrics(bound), inst.locals, "metrics"),
                sheets |-> sheets_data]
          [] inst.pc = "metrics" ->
               [instance |-> Running(_prepare_output_datasets(bound),
                                     [isw_unity |-> isw_unity(bound.results)] @@ inst.locals,
                                     "done"),
                sheets |-> sheets_data])

\* ReconciliationService(sheets_data, run_date) once more, on the sheets_data
\* the first instance was built from.
PeerConstruct ==
    /\ peer = Unset
    /\ \E run_date \in RequestDates :
           peer' = Running(Construct(sheets, run_date), Unset, "constructed")
    /\ UNCHANGED <<self, locals, pc, fn_arg, fn_res, fn_res2, sheets, files,
                 changed, request, response, tasks>>

\* The next stage of the second instance's run_full_reconciliation.
PeerStep ==
    /\ peer # Unset
    /\ peer.pc \notin {"done", "failed"}
    /\ \E next \in {Advance(peer, sheets)} :
           /\ peer' = next.instance
           /\ sheets' = next.sheets
    /\ UNCHANGED <<self, locals, pc, fn_arg, fn_res, fn_res2, files,
                 changed, request, response, tasks>>

NextPair ==
    \/ Next
    \/ PeerConstruct
    \/ PeerStep

\* Up to one card transaction and one Interswitch settlement row, a bank
\* statement with a well-formed ISW line, with one that lacks a field, or
\* with a line of no narration.
InitPair ==
    \E card \in SeqsUpTo(RunCardRows, 1),
       pool \in SeqsUpTo({r \in ReportRows : r.report = "INTERSWITCH"}, 1),
       narration \in {IswNarration("2LBP", RrnText(1), <<"POS">>),
                      IswNarrationShort(RrnText(1)), NA},
       run_date \in RequestDates :
        InitRun(SheetsData(card, <<>>, ReportOf(pool, "INTERSWITCH"), <<>>,
                           <<BankRow(narration, Day1Cell)>>),
                run_date)

SpecPair == InitPair /\ [][NextPair]_vars

\* The instances of the state.
Instances ==
    {Running(self, locals, pc)} \cup (IF peer = Unset THEN {} ELSE {peer})

\* An instance whose run ended has the metrics, the result tables and the
\* output datasets of a run alone on sheets_data for its run date, and has
\* failed if that run fails.
EndedAsAlone(inst) ==
    inst.pc \in {"done", "failed"} =>
        \E alone \in {run_full_reconciliation(sheets, inst.self.run_date)} :
            /\ alone.raised = (inst.pc = "failed")
            /\ inst.self.metrics = alone.self.metrics
            /\ inst.self.results = alone.self.results
            /\ ~alone.raised => inst.self.output_datasets = alone.self.output_datasets

\* C19: no stage of a run modifies the six tables of sheets_data, and each
\* of two instances built from the same sheets_data, their stages
\* interleaved in any order, ends with the metrics and result tables of a
\* run alone.
InterleavedRunsAsAlone ==
    /\ [][sheets' = sheets]_vars
    /\ [](\A inst \in Instances : EndedAsAlone(inst))

\* Both instances have ended, the second one built while the first was
\* running, and the runs produced different metrics.
InterleavedRunsWitness ==
    /\ pc = "done"
    /\ peer # Unset
    /\ peer.pc = "done"
    /\ peer.self.raw_card_df # <<>>
    /\ peer.self.metrics # self.metrics
    /\ self.metrics.total_revenue > 0

MaxDupRows == 2

\* The table of sheets_data that is a channel's settlement report.
ReportNameOf(channel) ==
    CASE channel = "INTERSWITCH" -> "unity_settlement"
      [] channel = "NIBSS" -> "nibss_unity_settlement_df"
      [] channel = "PARALLEX" -> "parallex_nibss"

\* sheets_data with a row added at the end of a channel's settlement report.
AddSettlementRow(sheets_data, channel, row) ==
    [sheets_data EXCEPT ![ReportNameOf(channel)] = Append(@, row)]

\* The rows of a channel's report in the inputs: of the run date and the
\* channel's merchant.
DupReportRows(channel) ==
    {ReportRow(channel, key, "ok").row : key \in ReportKeysOf(channel)}

\* The rows that differ from a row in one field and keep its reference
\* number: another amount, another STAN, the day after, another merchant,
\* the same merchant written with surrounding blanks.
NearDuplicatesOf(row) ==
    {[row EXCEPT !.Tran_Amount_Req = 250],
     [row EXCEPT !.STAN = 2],
     [row EXCEPT !.Local_Date_Time = Day2Cell],
     [row EXCEPT !.Merchant_ID = <<"OTHER">>],
     [row EXCEPT !.Merchant_ID = <<" ">> \o row.Merchant_ID \o <<" ">>]}

InitDup ==
    \E channel \in Channels :
        \E card \in SeqsUpTo({CardRow(key, Day1Cell, MerchantCell(channel), <<"0">>, key,
                                      AmountOf(key)) : key \in CardKeysOf(channel)}, 1),
           report \in SeqsUpTo(DupReportRows(channel)
                                   \cup UNION {NearDuplicatesOf(r) : r \in DupReportRows(channel)},
                               MaxDupRows) :
            InitRun([SheetsData(card, <<>>, <<>>, <<>>,
                                <<BankRow(IswNarration("2LBP", RrnText(1), <<"POS">>), Day1Cell)>>)
                        EXCEPT ![ReportNameOf(channel)] = report],
                    Day1)

SpecDup == InitDup /\ [][Next]_vars

\* The settlement total of a channel in the results of a run.
SettlementTotalIn(r, channel) ==
    CASE channel = "INTERSWITCH" -> r.unity_isw_agg[1].Tran_Amount_Req
      [] channel = "NIBSS" -> r.nibss_unity_settlement[1].Tran_Amount_Req
      [] channel = "PARALLEX" -> r.parallex_nibss_df[1].Tran_Amount_Req

\* The run ended with the metrics and the result tables of an outcome.
EndedAs(outcome) ==
    /\ ~outcome.raised
    /\ outcome.self.metrics = self.metrics
    /\ outcome.self.results = self.results
    /\ outcome.self.output_datasets = self.output_datasets

\* Adding an exact duplicate of a row of a channel's report changes no
\* metrics figure and no table of the run.
ExactDuplicateChangesNothing ==
    \A channel \in Channels :
        \A i \in 1..Len(sheets[ReportNameOf(channel)]) :
            EndedAs(run_full_reconciliation(
                        AddSettlementRow(sheets, channel, sheets[ReportNameOf(channel)][i]),
                        self.run_date))

\* The settlement total of a channel after a row is added to its report is
\* the total of the run plus the row's requested amount.
AddsItsAmount(channel, row) ==
    \E outcome \in {run_full_reconciliation(AddSettlementRow(sheets, channel, row),
                                            self.run_date)} :
        /\ ~outcome.raised
        /\ SettlementTotalIn(outcome.self.results, channel)
               = SettlementTotalIn(self.results, channel) + row.Tran_Amount_Req * Unit

\* The near-duplicates of the rows of a channel's report that are not rows of it.
NearDuplicatesIn(channel) ==
    UNION {NearDuplicatesOf(sheets[ReportNameOf(channel)][i]) :
              i \in 1..Len(sheets[ReportNameOf(channel)])}
        \ Rows(sheets[ReportNameOf(channel)])

\* C24 as stated: an exact duplicate added to a channel's settlement report
\* changes nothing, and a near-duplicate (same reference number, some other
\* field different) adds its requested amount to the channel's settlement
\* total.
NearDuplicateAlwaysCounted ==
    pc = "done" =>
        /\ ExactDuplicateChangesNothing
        /\ \A channel \in Channels :
               \A row \in NearDuplicatesIn(channel) : AddsItsAmount(channel, row)

\* The row is one the channel retains, and after the conversions of
\* _prepare_data it differs from every row of the channel's report.
CountedApart(channel, row) ==
    /\ PrepareSettlementRow(row).Local_Date_Time = self.run_date
    /\ channel # "INTERSWITCH" =>
           PrepareSettlementRow(row).Merchant_ID
               = _normalize_merchant_id_value(MerchantCell(channel))
    /\ \A i \in 1..Len(sheets[ReportNameOf(channel)]) :
           PrepareSettlementRow(sheets[ReportNameOf(channel)][i]) # PrepareSettlementRow(row)

\* C24, amended: an exact duplicate changes nothing, and a near-duplicate
\* adds its requested amount to the channel's settlement total when it is a
\* row the channel retains (run date, channel merchant) that still differs
\* from the rows of the report after the conversions of _prepare_data;
\* otherwise it leaves the total as it was.
NearDuplicateCountedWhenRetained ==
    pc = "done" =>
        /\ ExactDuplicateChangesNothing
        /\ \A channel \in Channels :
               \A row \in NearDuplicatesIn(channel) :
                   IF CountedApart(channel, row) THEN AddsItsAmount(channel, row)
                   ELSE SettlementTotalIn(
                            run_full_reconciliation(AddSettlementRow(sheets, channel, row),
                                                    self.run_date).self.results, channel)
                            = SettlementTotalIn(self.results, channel)

\* A run ended on a report of two rows, one a near-duplicate of the other
\* that the channel retains, with a transaction of the reference number.
NearDuplicateWitness ==
    /\ pc = "done"
    /\ \E channel \in Channels :
           /\ Len(sheets[ReportNameOf(channel)]) = 2
           /\ sheets[ReportNameOf(channel)][2]
                  \in NearDuplicatesOf(sheets[ReportNameOf(channel)][1])
           /\ \E row \in NearDuplicatesIn(channel) : CountedApart(channel, row)
           /\ \E row \in NearDuplicatesIn(channel) : ~CountedApart(channel, row)
           /\ SettlementTotalIn(self.results, channel) > 1000 * Unit
    /\ self.raw_card_df # <<>>

(***************************************************************************)
(* The run on bank statements with NEFT lines.                             *)
(***************************************************************************)
MaxNeftLines == 3

\* Narrations of the NEFT kind and beside it: of the target date, of the day
\* after, with no date field, ending in blanks, and not ending with NEFT.
NeftNarrations ==
    {HashNarration("NIP", Day1Token, "NEFT"),
     HashNarration("NIP", Day2Token, "NEFT"),
     <<"NIP", " ", "NEFT">>,
     HashNarration("NIP", Day1Token, "NEFT") \o <<" ">>,
     HashNarration("NIP", Day1Token, "POS")}

NeftLines ==
    {[BankRow(narration, Day1Cell) EXCEPT !.Credit = credit] :
        narration \in NeftNarrations, credit \in {700, 300}}

\* One well-formed ISW line, then the lines of the NEFT kind; one Interswitch
\* settlement row of the run date gives the target date.
InitNeft ==
    \E lines \in SeqsUpTo(NeftLines, MaxNeftLines) :
        InitRun(SheetsData(<<CardRow(1, Day1Cell, IswCell, <<"0">>, IntKey(1), 1000)>>, <<>>,
                           <<SettlementRow(Day1Cell, IswCell, IntKey(1), 1000)>>, <<>>,
                           <<BankRow(IswNarration("2LBP", RrnText(1), <<"POS">>), Day1Cell)>>
                               \o lines),
                Day1)

SpecNeft == InitNeft /\ [][Next]_vars

\* The bank lines of the sheet whose narration, the blanks around it left
\* out, ends with NEFT and whose narration date is the date.
NeftLinesOn(date) ==
    Filter(sheets.collection_account_unity,
           LAMBDA row : /\ row.Transaction_Narration # NA
                        /\ EndsWith(Strip(row.Transaction_Narration), <<"NEFT">>)
                        /\ _parse_mixed_date(RawDate(row)) = date)

\* The bank stage ended on its normal path.
NeftCreditStored ==
    /\ pc \in {"banked", "metrics", "done"}
    /\ "unique_date" \in DOMAIN locals

MaxClaimCards == 2

MaxClaimRows == 2

\* Interswitch transactions of the run date, of reference numbers 1 and 2.
ClaimCardRows ==
    {CardRow(k, Day1Cell, IswCell, <<"0">>, IntKey(k), IF k = 1 THEN 1000 ELSE 500) :
        k \in {1, 2}}

\* Interswitch settlement rows of the run date: one per reference number,
\* and the same row under another STAN.
ClaimReportRows ==
    {[SettlementRow(Day1Cell, IswCell, IntKey(k), IF k = 1 THEN 1000 ELSE 500)
          EXCEPT !.STAN = stan] : k \in {1, 2}, stan \in {1, 2}}

\* One ISW-collection bank line, of reference number 1, 2 or 3.
InitClaim ==
    \E card \in SeqsUpTo(ClaimCardRows, MaxClaimCards),
       isw \in SeqsUpTo(ClaimReportRows, MaxClaimRows),
       k \in {1, 2, 3} :
        InitRun(SheetsData(card, <<>>, isw, <<>>,
                           <<BankRow(IswNarration("2LBP", RrnText(k), <<"POS">>), Day1Cell)>>),
                Day1)

SpecClaim == InitClaim /\ [][Next]_vars

\* The positions in interswitch_unity of the Interswitch transactions that
\* match a retained settlement row and no ISW-collection bank line.
SettledNotCollected ==
    {k \in 1..Len(self.interswitch_unity) :
        /\ \E i \in 1..Len(self.unity_isw) :
               self.unity_isw[i].Retrieval_Reference_Nr
                   = self.interswitch_unity[k].reference_number
        /\ \A i \in 1..Len(locals.isw_collection) :
               locals.isw_collection[i].rrn # self.interswitch_unity[k].reference_number}

RECURSIVE AmountOver(_)
\* The sum of amount over the transactions at a set of positions.
AmountOver(positions) ==
    IF positions = {} THEN 0
    ELSE LET k == CHOOSE n \in positions : TRUE
         IN  self.interswitch_unity[k].amount * Unit + AmountOver(positions \ {k})

\* C27: total_bank_isw_unsettled_claims is the sum of amount over the
\* distinct Interswitch transactions that matched a settlement row but no
\* ISW-collection bank line, a transaction matched by several settlement
\* rows counted once.
BankUnsettledCountedOnce ==
    pc \in {"metrics", "done"} =>
        self.metrics.total_bank_isw_unsettled_claims = AmountOver(SettledNotCollected)

(***************************************************************************)
(* The settlement total of a channel, split by the outcome of the join.    *)
(***************************************************************************)
\* The retained settlement rows of a channel, as _process_settlements left them.
RetainedRowsOf(channel) ==
    CASE channel = "INTERSWITCH" -> locals.unity_isw
      [] channel = "NIBSS" -> locals.nibss_unity_sett
      [] channel = "PARALLEX" -> locals.parallex_df

\* The transactions of a channel.
TransactionsOf(channel) ==
    CASE channel = "INTERSWITCH" -> self.interswitch_unity
      [] channel = "NIBSS" -> self.nibss_unity
      [] channel = "PARALLEX" -> self.nibss_parallex

\* The charge-back table of a channel.
ChargeBackTableOf(channel) ==
    CASE channel = "INTERSWITCH" -> self.results.isw_charge_back
      [] channel = "NIBSS" -> self.results.charge_back
      [] channel = "PARALLEX" -> self.results.parallex_charge_back

\* The retained settlement rows of a channel whose reference number is that
\* of some transaction of the channel.
MatchedRetainedRows(channel) ==
    Filter(RetainedRowsOf(channel),
           LAMBDA row : \E i \in 1..Len(TransactionsOf(channel)) :
                            TransactionsOf(channel)[i].reference_number
                                = row.Retrieval_Reference_Nr)

\* The requested amount of a table of settlement rows.
RequestedAmount(df) ==
    Sum(df, LAMBDA row : row.Tran_Amount_Req * Unit)

\* C28: for each channel, the settlement total is the charge-back total
\* plus the requested amount of the retained settlement rows whose
\* reference number matches some transaction of the channel.
SettlementTotalSplitsInTwo ==
    pc \in {"settled", "banked", "metrics", "done"} =>
        \A channel \in Channels :
            SettlementTotalIn(self.results, channel)
                = RequestedAmount(ChargeBackTableOf(channel))
                  + RequestedAmount(MatchedRetainedRows(channel))

\* A run ends with a channel that has a charge back and a matched
\* settlement row.
SettlementTotalSplitsWitness ==
    /\ pc = "done"
    /\ \E channel \in Channels :
           /\ Len(ChargeBackTableOf(channel)) >= 1
           /\ Len(MatchedRetainedRows(channel)) >= 1

(***************************************************************************)
(* The order of the stages and the tables each stage finds written.        *)
(***************************************************************************)
\* The result tables _generate_metrics reads.
MetricsReads ==
    {"nibss_unity_df", "interswitch_unity_df", "nibss_parallex_df",
     "nibss_unity_settlement", "unity_isw_agg", "parallex_nibss_df",
     "charge_back", "isw_charge_back", "parallex_charge_back",
     "unsettled_claim", "isw_unsettled_claim", "parallex_unsettled_claim",
     "isw_b_unsettled_claim", "isw_b_charge_back"}

\* The result tables _prepare_output_datasets reads.
OutputReads ==
    MetricsReads
    \cup {"paybox_trans_df", "nerf_nibss_b_credit", "being_nibss_summary",
          "cb", "tof_df", "ds"}

\* The position a run reaches from another when the stage there returns.
StageAfter(at) ==
    CASE at = "constructed" -> "prepared"
      [] at = "prepared" -> "cards"
      [] at = "cards" -> "settled"
      [] at = "settled" -> "banked"
      [] at = "banked" -> "metrics"
      [] at = "metrics" -> "done"
      [] OTHER -> at

\* C29: run_full_reconciliation runs its stages in the order prepare, card
\* transactions, settlements, bank statements, metrics, output datasets,
\* and when bank-statement processing has returned, by its last line or by
\* its early return, every result table _generate_metrics and
\* _prepare_output_datasets read is written.
StagesInOrderOverWrittenTables ==
    /\ [][pc' \in {StageAfter(pc), "failed"}]_vars
    /\ [](pc \in {"banked", "metrics"} =>
              (MetricsReads \cup OutputReads) \subseteq DOMAIN self.results)

\* A run through the early return of bank-statement processing is done.
EarlyReturnRunWitness ==
    /\ pc = "done"
    /\ NoReferenceDate(self.unity_isw)
    /\ "unique_date" \notin DOMAIN locals
    /\ DOMAIN self.output_datasets # {}

(***************************************************************************)
(* The HTTP endpoints (main.py).                                           *)
(***************************************************************************)
\* A literal segment of a route's path.
Literal(text) ==
    [param |-> FALSE, text |-> text]

\* A path parameter {name}: any segment that is not empty.
Parameter(name) ==
    [param |-> TRUE, text |-> name]

\* The routes of the application in the order main.py declares them.
Routes ==
    <<[method |-> "GET", path |-> <<>>, endpoint |-> "root"],
      [method |-> "GET", path |-> <<Literal(<<"health">>)>>, endpoint |-> "health_check"],
      [method |-> "POST", path |-> <<Literal(<<"reconciliation">>), Literal(<<"run">>)>>,
       endpoint |-> "run_reconciliation"],
      [method |-> "GET", path |-> <<Literal(<<"metrics">>), Parameter("run_date")>>,
       endpoint |-> "get_metrics"],
      [method |-> "GET", path |-> <<Literal(<<"metrics">>), Literal(<<"latest">>)>>,
       endpoint |-> "get_latest_metrics"],
      [method |-> "GET", path |-> <<Literal(<<"config">>)>>, endpoint |-> "get_config"]>>

\* The route matches the method and the segments of a request's path.
RouteMatches(route, method, path) ==
    /\ route.method = method
    /\ Len(route.path) = Len(path)
    /\ \A i \in 1..Len(path) :
           IF route.path[i].param THEN path[i] # <<>>
           ELSE path[i] = route.path[i].text

\* The endpoint that serves a request: that of the first route that matches.
RouteOf(method, path) ==
    LET matching == {i \in 1..Len(Routes) : RouteMatches(Routes[i], method, path)}
    IN  IF matching = {} THEN "not_found"
        ELSE Routes[CHOOSE i \in matching : \A j \in matching : i <= j].endpoint

\* The positions of the hyphens of a text.
HyphensOf(text) ==
    {i \in 1..Len(text) : text[i] = "-"}

\* %m and %d: one or two digits that write a number from 1 to most, and for
\* %d a blank and one digit too.
IsFieldText(field, most, blank) ==
    \/ /\ Len(field) \in {1, 2}
       /\ IsDigitText(field)
       /\ Num(field) \in 1..most
    \/ /\ blank
       /\ Len(field) = 2
       /\ field[1] = " "
       /\ field[2] \in Digits \ {"0"}

\* The number a %m or %d field writes.
FieldNum(field) ==
    IF field[1] = " " THEN DigitVal(field[2]) ELSE Num(field)

\* datetime.strptime(text, "%Y-%m-%d").date(): the date, or ValueError raised.
strptime(text) ==
    LET hyphens == HyphensOf(text)
        first == CHOOSE i \in hyphens : \A j \in hyphens : i <= j
        last == CHOOSE i \in hyphens : \A j \in hyphens : j <= i
        year == SubSeq(text, 1, first - 1)
        month == SubSeq(text, first + 1, last - 1)
        day == SubSeq(text, last + 1, Len(text))
        ValueError == [raised |-> TRUE, date |-> NaT]
    IN  IF Cardinality(hyphens) # 2 THEN ValueError
        ELSE IF ~(Len(year) = 4 /\ IsDigitText(year)) THEN ValueError
        ELSE IF ~IsFieldText(month, 12, FALSE) THEN ValueError
        ELSE IF ~IsFieldText(day, 31, TRUE) THEN ValueError
        ELSE IF Num(year) < 1 \/ FieldNum(day) > DaysIn(Num(year), FieldNum(month))
        THEN ValueError
        ELSE [raised |-> FALSE,
              date |-> [y |-> Num(year), m |-> FieldNum(month), d |-> FieldNum(day)]]

\* A JSON object read back: the value of each member by its name.
JsonObject(members) ==
    [name \in {members[i][1] : i \in 1..Len(members)} |->
        members[CHOOSE i \in 1..Len(members) :
                    /\ members[i][1] = name
                    /\ \A j \in 1..Len(members) : members[j][1] = name => j <= i][2]]

\* json.load(f) of a metrics file
JsonLoad(content) ==
    LET top == JsonObject(content)
        channels == JsonObject(top.channels)
    IN  [name \in DOMAIN top |->
            IF name = "channels"
            THEN [c \in DOMAIN channels |-> JsonObject(channels[c])]
            ELSE top[name]]

\* The fields of MetricsResponse (models/schemas.py).
MetricsFields ==
    {"run_date", "total_revenue", "total_settlement", "total_settlement_charge_back",
     "total_settlement_unsettled_claims", "total_bank_isw_unsettled_claims",
     "total_bank_isw_charge_back", "channels"}

\* MetricsResponse(**metrics), of metrics that have every field
MetricsResponse(metrics) ==
    [name \in MetricsFields |-> metrics[name]]

\* What an endpoint answers: the status and, with 200, the body.
Answer(endpoint, status, body) ==
    [endpoint |-> endpoint, status |-> status, body |-> body]

\* f"{settings.output_dir}/metrics_{run_date}.json"
requested_path(run_date) ==
    <<"outputs/metrics", "/", "metrics_">> \o run_date \o <<".json">>

\* get_metrics(run_date)
get_metrics(run_date, fs) ==
    IF strptime(run_date).raised THEN Answer("get_metrics", 500, <<>>)
    ELSE IF requested_path(run_date) \notin DOMAIN fs THEN Answer("get_metrics", 404, <<>>)
    ELSE IF ~(MetricsFields \subseteq DOMAIN JsonLoad(fs[requested_path(run_date)]))
    THEN Answer("get_metrics", 500, <<>>)
    ELSE Answer("get_metrics", 200, MetricsResponse(JsonLoad(fs[requested_path(run_date)])))

\* glob.glob(f"{settings.output_dir}/metrics_*.json")
metrics_files(fs) ==
    {path \in DOMAIN fs :
        /\ Len(path) >= 4
        /\ SubSeq(path, 1, 3) = <<"outputs/metrics", "/", "metrics_">>
        /\ path[Len(path)] = ".json"}

\* max(metrics_files, key=os.path.getctime): the file whose last change is
\* the latest.
latest_file(found, order) ==
    order[CHOOSE i \in 1..Len(order) :
              /\ order[i] \in found
              /\ \A j \in 1..Len(order) : order[j] \in found => j <= i]

\* get_latest_metrics(): its own HTTPException(404) is raised inside the try
\* and caught by except Exception.
get_latest_metrics(fs, order) ==
    IF metrics_files(fs) = {} THEN Answer("get_latest_metrics", 500, <<>>)
    ELSE IF ~(MetricsFields
                  \subseteq DOMAIN JsonLoad(fs[latest_file(metrics_files(fs), order)]))
    THEN Answer("get_latest_metrics", 500, <<>>)
    ELSE Answer("get_latest_metrics", 200,
                MetricsResponse(JsonLoad(fs[latest_file(metrics_files(fs), order)])))

\* The answer to GET /metrics/<segment>.
ServeMetrics(segment, fs, order) ==
    CASE RouteOf("GET", <<<<"metrics">>, segment>>) = "get_metrics" ->
             get_metrics(segment, fs)
      [] RouteOf("GET", <<<<"metrics">>, segment>>) = "get_latest_metrics" ->
             get_latest_metrics(fs, order)
      [] OTHER -> Answer("not_found", 404, <<>>)

\* 2024-1-15: the first day with its month not padded.
Day1Unpadded == <<"2", "0", "2", "4", "-", "1", "-", "1", "5">>

\* 2024-02-30: no calendar date.
NoCalendarDay == <<"2", "0", "2", "4", "-", "0", "2", "-", "3", "0">>

\* The last segments of the GET /metrics/... requests.
MetricsSegments ==
    {Day1Cell, Day2Cell, Day1Unpadded, NoCalendarDay, NoDateCell, <<"latest">>}

\* The run_date values of the POST /reconciliation/run requests.
PostedDates ==
    {Day1Cell, Day2Cell, Day1Unpadded, NoDateCell}

\* A request to one of the two metrics endpoints, between two runs.
GetMetricsRequest ==
    /\ pc = "idle"
    /\ \E segment \in MetricsSegments :
           /\ request' = [method |-> "GET", path |-> <<<<"metrics">>, segment>>]
           /\ response' = ServeMetrics(segment, files, changed)
    /\ UNCHANGED <<self, locals, pc, fn_arg, fn_res, fn_res2, sheets, peer, files,
                 changed, tasks>>

\* The request to run_reconciliation as far as the instance: the run date
\* is parsed, the sheets are loaded, which raises or returns six tables, and
\* the instance is built.
PostRun ==
    /\ pc = "idle"
    /\ \E run_date \in PostedDates, loaded \in BOOLEAN, sheets_data \in LoadedSheets :
           /\ request' = [method |-> "POST",
                          path |-> <<<<"reconciliation">>, <<"run">>>>,
                          run_date |-> run_date]
           /\ tasks' = <<>>
           /\ IF strptime(run_date).raised \/ ~loaded
              THEN /\ response' = Answer("run_reconciliation", 500, <<>>)
                   /\ UNCHANGED <<self, locals, pc, sheets>>
              ELSE /\ response' = Unset
                   /\ sheets' = sheets_data
                   /\ self' = Construct(sheets_data, strptime(run_date).date)
                   /\ locals' = Unset
                   /\ pc' = "constructed"
    /\ UNCHANGED <<fn_arg, fn_res, fn_res2, peer, files, changed>>

\* except Exception, around a stage that raised: HTTPException(500)
RunFailed ==
    /\ pc = "failed"
    /\ response' = Answer("run_reconciliation", 500, <<>>)
    /\ pc' = "idle"
    /\ UNCHANGED <<self, locals, fn_arg, fn_res, fn_res2, sheets, peer, files,
                 changed, request, tasks>>

\* The request from the saved metrics file on: AIService() builds the OpenAI
\* client, which raises or returns; generate_summary returns a text; the
\* two sheet writes are added as background tasks and the response is built.
FinishRun ==
    /\ pc = "saved"
    /\ \E built \in BOOLEAN :
           IF ~built
           THEN /\ response' = Answer("run_reconciliation", 500, <<>>)
                /\ UNCHANGED tasks
           ELSE /\ tasks' = tasks \o <<"write_summary_to_sheet", "push_datasets_to_sheets">>
                /\ response' = Answer("run_reconciliation", 200,
                                      [run_date |-> isoformat(self.run_date),
                                       metrics |-> MetricsResponse(
                                           [self.metrics EXCEPT
                                                !.run_date = isoformat(@)]),
                                       metrics_file_path |-> metrics_path(self.run_date)])
    /\ pc' = "idle"
    /\ UNCHANGED <<self, locals, fn_arg, fn_res, fn_res2, sheets, peer, files,
                 changed, request>>

NextHttp ==
    \/ GetMetricsRequest
    \/ PostRun
    \/ Next
    \/ SaveMetricsToFile
    \/ RunFailed
    \/ FinishRun

InitHttp ==
    /\ NoInstance
    /\ pc = "idle"
    /\ fn_arg = <<>>
    /\ fn_res = <<>>
    /\ fn_res2 = <<>>

SpecHttp == InitHttp /\ [][NextHttp]_vars

\* The request served last is GET /metrics/<segment>.
LastRequestIsGetMetrics(segment) ==
    /\ DOMAIN request # {}
    /\ request.method = "GET"
    /\ request.path = <<<<"metrics">>, segment>>

\* C21: whenever a metrics file exists, GET /metrics/latest is served by
\* get_latest_metrics and answers the snapshot of the metrics file written
\* last.
LatestServedByLatestEndpoint ==
    (LastRequestIsGetMetrics(<<"latest">>) /\ DOMAIN files # {}) =>
        /\ response.endpoint = "get_latest_metrics"
        /\ response.status = 200
        /\ response.body = MetricsResponse(JsonLoad(files[changed[Len(changed)]]))

\* C22: for every run_date that passes strptime, GET /metrics/{run_date}
\* answers the snapshot saved for that calendar date, and 404 when none is
\* saved for it.
MetricsOfCalendarDate ==
    \A segment \in MetricsSegments \ {<<"latest">>} :
        (LastRequestIsGetMetrics(segment) /\ ~strptime(segment).raised) =>
            IF metrics_path(strptime(segment).date) \in DOMAIN files
            THEN /\ response.status = 200
                 /\ response.body = MetricsResponse(
                        JsonLoad(files[metrics_path(strptime(segment).date)]))
            ELSE response.status = 404

\* C30: a request to run_reconciliation that ends with 500 has written no
\* metrics file (it is not past save_metrics_to_file) and has added no
\* background task that writes to the sheets.
FailedRunLeavesNothing ==
    [][(/\ pc' = "idle"
        /\ DOMAIN response' # {}
        /\ response'.endpoint = "run_reconciliation"
        /\ response'.status = 500)
       => (pc # "saved" /\ tasks' = <<>>)]_vars

(***************************************************************************)
(* Settings.get_google_credentials (config.py).                            *)
(***************************************************************************)
\* Base64 text is a sequence of groups of four characters, and decoded text a
\* sequence of the three characters each group stands for.
\* The three characters a group of the Base64 alphabet decodes to.
B64Group(group) ==
    CASE group = "eyJr" -> "{\"k"
      [] group = "Ijoi" -> "\":\""
      [] group = "QSJ9" -> "A\"}"
      [] group = "QiJ9" -> "B\"}"
      [] group = "bm9w" -> "nop"
      [] group = "////" -> "\\xff\\xff\\xff"

\* Four characters outside the Base64 alphabet, which b64decode discards.
Discarded == "!!!!"

\* One character of the alphabet, which leaves the padding incorrect.
Dangling == "e"

\* base64.b64decode(text): the bytes, or binascii.Error raised.
b64decode(text) ==
    LET kept == SelectSeq(text, LAMBDA group : group # Discarded)
    IN  IF \E i \in 1..Len(kept) : kept[i] = Dangling
        THEN [raised |-> TRUE, bytes |-> <<>>]
        ELSE [raised |-> FALSE, bytes |-> [i \in 1..Len(kept) |-> B64Group(kept[i])]]

\* bytes.decode('utf-8') raises UnicodeDecodeError.
NotUtf8(bytes) ==
    \E i \in 1..Len(bytes) : bytes[i] = "\\xff\\xff\\xff"

\* What a call returns: the credentials, or RuntimeError raised.
Returned(credentials) ==
    [raised |-> FALSE, value |-> credentials]

RuntimeError ==
    [raised |-> TRUE, value |-> [error |-> "RuntimeError"]]

\* json.loads(text) of a text of three-character pieces: the dictionary of
\* an object with the one member "k", or RuntimeError for what the caller
\* makes of JSONDecodeError.
json_loads(text) ==
    IF Len(text) = 3 /\ text[1] = "{\"k" /\ text[2] = "\":\"" /\ text[3] \in {"A\"}", "B\"}"}
    THEN Returned([k |-> IF text[3] = "A\"}" THEN "A" ELSE "B"])
    ELSE RuntimeError

\* The try block of the Base64 source.
FromBase64(text) ==
    IF b64decode(text).raised \/ NotUtf8(b64decode(text).bytes) THEN RuntimeError
    ELSE json_loads(b64decode(text).bytes)

\* The try block of the file source: open(service_account_file) and json.load.
FromFile(path, disk) ==
    json_loads(disk[path])

\* A mutant: a Base64 value that cannot be decoded falls back to the JSON
\* string and the file.
credentials_with_fallback(s, disk) ==
    IF s.google_credentials_base64 # <<>> /\ ~FromBase64(s.google_credentials_base64).raised
    THEN FromBase64(s.google_credentials_base64)
    ELSE IF s.google_credentials_json # <<>>
    THEN json_loads(s.google_credentials_json)
    ELSE IF s.service_account_file # <<>> /\ s.service_account_file \in DOMAIN disk
    THEN FromFile(s.service_account_file, disk)
    ELSE RuntimeError

\* settings.get_google_credentials(), with the files of the working directory
get_google_credentials(s, disk) ==
    IF s.google_credentials_base64 # <<>>
    THEN FromBase64(s.google_credentials_base64)
    ELSE IF s.google_credentials_json # <<>>
    THEN json_loads(s.google_credentials_json)
    ELSE IF s.service_account_file # <<>> /\ s.service_account_file \in DOMAIN disk
    THEN FromFile(s.service_account_file, disk)
    ELSE RuntimeError

\* The JSON text of the credentials of account A and of account B.
JsonTextOf(account) ==
    <<"{\"k", "\":\"", IF account = "A" THEN "A\"}" ELSE "B\"}">>

\* The Base64 text of the credentials of an account.
Base64TextOf(account) ==
    <<"eyJr", "Ijoi", IF account = "A" THEN "QSJ9" ELSE "QiJ9">>

\* GOOGLE_CREDENTIALS_BASE64: unset, the credentials of A or B, the same after
\* characters b64decode discards, text with incorrect padding, the encoding
\* of text that is no JSON, and of bytes that are no UTF-8.
Base64Values ==
    {<<>>, Base64TextOf("A"), Base64TextOf("B"), <<Discarded>> \o Base64TextOf("A"),
     <<Discarded>>, <<"eyJr", Dangling>>, <<"bm9w">>, <<"////">>}

\* GOOGLE_CREDENTIALS_JSON: unset, the credentials of A or B, text that is no JSON.
JsonValues ==
    {<<>>, JsonTextOf("A"), JsonTextOf("B"), <<"nop">>}

\* The files of the working directory: a key file of B and a file that is
\* no JSON.
Disk ==
    [p \in {<<"key.json">>, <<"notes.txt">>} |->
        IF p = <<"key.json">> THEN JsonTextOf("B") ELSE <<"nop">>]

\* SERVICE_ACCOUNT_FILE: unset, the two files, and a path with no file.
FileValues ==
    {<<>>, <<"key.json">>, <<"notes.txt">>, <<"missing.json">>}

\* The call of get_google_credentials on the settings of fn_arg.
CallGetGoogleCredentials ==
    /\ pc = "configured"
    /\ fn_res' = get_google_credentials(fn_arg, Disk)
    /\ pc' = "returned"
    /\ UNCHANGED <<self, locals, fn_arg, fn_res2, sheets, peer, files,
                 changed, request, response, tasks>>

NextCredentials ==
    CallGetGoogleCredentials

InitCredentials ==
    /\ NoInstance
    /\ pc = "configured"
    /\ fn_arg \in [google_credentials_base64 : Base64Values,
                   google_credentials_json : JsonValues,
                   service_account_file : FileValues]
    /\ fn_res = <<>>
    /\ fn_res2 = <<>>

SpecCredentials == InitCredentials /\ [][NextCredentials]_vars

\* The outcome of a source taken alone: whether it is set, and what its
\* value gives.
SourceOutcome(source) ==
    CASE source = "base64" ->
             [set |-> fn_arg.google_credentials_base64 # <<>>,
              result |-> FromBase64(fn_arg.google_credentials_base64)]
      [] source = "json" ->
             [set |-> fn_arg.google_credentials_json # <<>>,
              result |-> json_loads(fn_arg.google_credentials_json)]
      [] source = "file" ->
             [set |-> fn_arg.service_account_file \in DOMAIN Disk,
              result |-> IF fn_arg.service_account_file \in DOMAIN Disk
                         THEN json_loads(Disk[fn_arg.service_account_file])
                         ELSE RuntimeError]

\* The sources in their order of priority.
SourcePriority == <<"base64", "json", "file">>

\* C23: get_google_credentials gives what the first source that is set
\* gives, in the order Base64 value, JSON string, file: its credentials, or
\* RuntimeError when it cannot be decoded, whatever the sources after it
\* hold; and RuntimeError when no source is set.
FirstSetSourceDecides ==
    pc = "returned" =>
        /\ \A i \in 1..Len(SourcePriority) :
               (/\ SourceOutcome(SourcePriority[i]).set
                /\ \A j \in 1..(i - 1) : ~SourceOutcome(SourcePriority[j]).set)
               => fn_res = SourceOutcome(SourcePriority[i]).result
        /\ (\A i \in 1..Len(SourcePriority) : ~SourceOutcome(SourcePriority[i]).set)
               => fn_res = RuntimeError

\* The call raised for a Base64 value that cannot be decoded, while the JSON
\* string holds credentials.
NoFallbackWitness ==
    /\ pc = "returned"
    /\ fn_arg.google_credentials_base64 # <<>>
    /\ FromBase64(fn_arg.google_credentials_base64).raised
    /\ ~json_loads(fn_arg.google_credentials_json).raised
    /\ fn_res = RuntimeError

====
